---- MODULE Spec2Model ----
(***************************************************************************)
(* Transaction model and wire / PSBT codec of electrum-zcash               *)
(* (electrum_zcash/transaction.py).                                        *)
(*                                                                         *)
(* Bytes are sequences of integers 0..255; a hex string of the source is   *)
(* the byte sequence it denotes.  An optional value (Python None) is the   *)
(* empty tuple, a present value x is the one-element tuple <<x>>.          *)
(* Integers are TLA+ integers and are converted to and from little-endian  *)
(* bytes as the source does; the two fields whose usual values do not fit  *)
(* a signed 32-bit integer of the checker (nsequence, versionGroupId) are  *)
(* kept as their four little-endian bytes, which read_uint32 followed by   *)
(* int_to_hex(., 4) maps to themselves for every four-byte sequence.       *)
(***************************************************************************)
EXTENDS Integers, Sequences, FiniteSets, Bags, TLC

VARIABLES
    heap,       \* PartialTxInput objects: object id -> input record
    ptx,        \* the two PartialTransaction objects: 1..2 -> record
    last,       \* what the last operation was, on what, and how it ended
    ctx,        \* codec scenario: the Transaction object under test
    wire,       \* codec scenario: the bytes the object was built from
    cres,       \* codec scenario: result of the last codec operation
    bcds,       \* stream scenario: the BCDataStream under test
    written,    \* stream scenario: what was written and is not yet read
    plugin,     \* scan scenario: the ScanOverGapPlugin object
    wallet,     \* scan scenario: the wallet the plugin scans
    loop        \* scan scenario: the coroutines on the event loop

\* the variables of the stream scenario
stream == <<bcds, written>>

\* the variables of the scan scenario
scanner == <<plugin, wallet, loop>>

vars == <<heap, ptx, last, ctx, wire, cres, stream, scanner>>

----------------------------------------------------------------------------
(* Optional values *)

None == <<>>
Some(x) == <<x>>
IsNone(o) == o = <<>>
IsSome(o) == o # <<>>
Val(o) == o[1]

----------------------------------------------------------------------------
(* Bytes and fixed-width integers *)

\* the list (or bytes value) with the elements f[1], f[2], ...
List(f) == <<>> \o f

Bytes(n, c) == List([i \in 1..n |-> c])

\* b''.join(ss)
RECURSIVE ConcatRange(_, _, _)
ConcatRange(ss, lo, hi) ==
    IF lo > hi THEN <<>>
    ELSE IF lo = hi THEN ss[lo]
    ELSE ConcatRange(ss, lo, (lo + hi) \div 2) \o ConcatRange(ss, (lo + hi) \div 2 + 1, hi)

Concat(ss) == ConcatRange(ss, 1, Len(ss))

Reverse(b) == List([i \in 1..Len(b) |-> b[Len(b) + 1 - i]])

ByteOf(i, k) ==
    CASE k = 0 -> i % 256
      [] k = 1 -> (i \div 256) % 256
      [] k = 2 -> (i \div 65536) % 256
      [] k = 3 -> (i \div 16777216) % 256
      [] OTHER -> 0

\* bitcoin.int_to_hex(i, length): little-endian two's complement of i.
int_to_hex(i, length) ==
    IF i >= 0
    THEN List([k \in 1..length |-> ByteOf(i, k - 1)])
    ELSE List([k \in 1..length |-> 255 - ByteOf(-i - 1, k - 1)])

\* struct.unpack('<I' / '<H' / '<B'): unsigned little-endian value.
UnsignedLE(b) ==
    IF Len(b) = 0 THEN 0
    ELSE b[1]
         + (IF Len(b) >= 2 THEN 256 * b[2] ELSE 0)
         + (IF Len(b) >= 3 THEN 65536 * b[3] ELSE 0)
         + (IF Len(b) >= 4 THEN 16777216 * b[4] ELSE 0)

AllBytes(b, lo, hi, c) == \A i \in lo..hi : b[i] = c

\* struct.unpack('<q'): signed 64-bit value of eight little-endian bytes.
SignedLE64(b) ==
    IF b[8] < 128
    THEN UnsignedLE(SubSeq(b, 1, 4)) + (IF AllBytes(b, 5, 8, 0) THEN 0 ELSE 2147483647 * 2)
    ELSE - 1 - UnsignedLE(List([k \in 1..4 |-> 255 - b[k]]))
         - (IF AllBytes(b, 5, 8, 255) THEN 0 ELSE 2147483647 * 2)

\* bitcoin.var_int(i): the compact-size encoding of i.
var_int(i) ==
    IF i < 253 THEN <<i>>
    ELSE IF i <= 65535 THEN <<253>> \o int_to_hex(i, 2)
    ELSE <<254>> \o int_to_hex(i, 4)

----------------------------------------------------------------------------
(* Hash functions.  The digests are computed from the whole input by a     *)
(* position-weighted sum and spread over the digest length; the seed    *)
(* tells the hash functions apart.                                         *)

\* The weighted byte sum of b: every byte counts with a weight that depends
\* on its position.
HashSum(b) ==
    BagCardinality([i \in 1..Len(b) |-> (b[i] + 1) * (((i * 131) % 251) + 1)])

Digest(b, seed, n) ==
    LET h == (HashSum(b) * 3 + Len(b) * 7 + seed) % 65521
    IN List([k \in 1..n |-> IF k = 1 THEN h % 256
                       ELSE IF k = 2 THEN h \div 256
                       ELSE (h + k * seed) % 256])

sha256d(b) == Digest(b, 1, 32)
hash_160(b) == Digest(b, 2, 20)
blake2b(b, person) == Digest(b, 3 + person, 32)

----------------------------------------------------------------------------
(* BCDataStream: input is None until the first write; reads move           *)
(* read_cursor.  A read returns [ok, v, s]: whether it succeeded, the      *)
(* value read, and the stream afterwards; err names the exception raised.  *)

BCDataStream == [input |-> None, read_cursor |-> 0]

write(s, b) ==
    IF IsNone(s.input) THEN [s EXCEPT !.input = Some(b)]
    ELSE [s EXCEPT !.input = Some(Val(s.input) \o b)]

ReadOk(s, v) == [ok |-> TRUE, v |-> v, s |-> s, err |-> "none"]
ReadFail(s, e) == [ok |-> FALSE, v |-> 0, s |-> s, err |-> e]

read_bytes(s, length) ==
    IF IsNone(s.input) THEN ReadFail(s, "SerializationError")
    ELSE LET input_len == Len(Val(s.input))
             read_begin == s.read_cursor
             read_end == read_begin + length
         IN IF 0 <= read_begin /\ read_begin <= read_end /\ read_end <= input_len
            THEN ReadOk([s EXCEPT !.read_cursor = s.read_cursor + length],
                        SubSeq(Val(s.input), read_begin + 1, read_end))
            ELSE ReadFail(s, "SerializationError")

bytes_left(s) ==
    IF IsNone(s.input) \/ Val(s.input) = <<>> THEN 0
    ELSE Len(Val(s.input)) - s.read_cursor

can_read_more(s) == bytes_left(s) > 0

\* struct.unpack_from over size bytes at the cursor; the value is left as
\* its bytes for the caller to interpret with the format's signedness.
read_num_bytes(s, size) ==
    IF IsNone(s.input) THEN ReadFail(s, "SerializationError")
    ELSE IF s.read_cursor + size <= Len(Val(s.input))
    THEN ReadOk([s EXCEPT !.read_cursor = s.read_cursor + size],
                SubSeq(Val(s.input), s.read_cursor + 1, s.read_cursor + size))
    ELSE ReadFail(s, "SerializationError")

read_uint32(s) ==
    LET r == read_num_bytes(s, 4)
    IN IF r.ok THEN ReadOk(r.s, UnsignedLE(r.v)) ELSE r

read_uint32_raw(s) == read_num_bytes(s, 4)

read_int64_raw(s) == read_num_bytes(s, 8)

\* the number of bytes struct reads for a format
calcsize(format) ==
    CASE format \in {"<b", "<B"} -> 1
      [] format \in {"<h", "<H"} -> 2
      [] format \in {"<i", "<I"} -> 4
      [] format \in {"<q", "<Q"} -> 8

\* BCDataStream._read_num(format), the value left as its bytes
read_num(s, format) == read_num_bytes(s, calcsize(format))

\* BCDataStream.read_compact_size with the value left as its little-endian
\* bytes: one, two, four or eight of them.  Only IndexError is turned into
\* SerializationError; the cursor has moved past the first byte when the
\* number after it is read.
read_compact_size_raw(s) ==
    IF IsNone(s.input) THEN ReadFail(s, "TypeError")
    ELSE IF s.read_cursor >= Len(Val(s.input)) THEN ReadFail(s, "SerializationError")
    ELSE LET size == Val(s.input)[s.read_cursor + 1]
             s1 == [s EXCEPT !.read_cursor = s.read_cursor + 1]
         IN CASE size = 253 -> read_num(s1, "<H")
              [] size = 254 -> read_num(s1, "<I")
              [] size = 255 -> read_num(s1, "<Q")
              [] OTHER -> ReadOk(s1, <<size>>)

\* read_compact_size, given r
read_compact_size_r(r) ==
    IF r.ok THEN ReadOk(r.s, UnsignedLE(IF Len(r.v) = 8 THEN SubSeq(r.v, 1, 4) ELSE r.v)
                             + (IF Len(r.v) = 8 /\ ~AllBytes(r.v, 5, 8, 0)
                                THEN 2147483647 * 2 ELSE 0))
    ELSE r

\* BCDataStream.read_compact_size with the value as a number
read_compact_size(s) == read_compact_size_r(read_compact_size_raw(s))

\* bytes.decode('ascii')
decode_ascii(r) ==
    IF r.ok /\ \E i \in 1..Len(r.v) : r.v[i] >= 128
    THEN ReadFail(r.s, "UnicodeDecodeError")
    ELSE r

\* read_string, given length
read_string_length(length) ==
    IF ~length.ok THEN length
    ELSE IF Len(length.v) > 2 /\ \E i \in 3..Len(length.v) : length.v[i] # 0
    THEN ReadFail(length.s, "SerializationError")
    ELSE decode_ascii(read_bytes(length.s, UnsignedLE(SubSeq(length.v, 1, IF Len(length.v) = 1 THEN 1 ELSE 2))))

\* BCDataStream.read_string(): a compact size and that many ascii bytes.  A
\* length of 2^16 or more exceeds every buffer here, so that read_bytes
\* raises for it.
read_string(s) ==
    IF IsNone(s.input) THEN ReadFail(s, "SerializationError")
    ELSE read_string_length(read_compact_size_raw(s))

read_boolean(s) ==
    LET r == read_bytes(s, 1)
    IN IF r.ok THEN ReadOk(r.s, r.v # <<0>>) ELSE r

\* an unsigned number below 2^64 as its eight little-endian bytes
U64(b) == b \o Bytes(8 - Len(b), 0)

\* n < 256^k for a number given as U64
Below(n, k) == AllBytes(n, k + 1, 8, 0)

\* BCDataStream._write_num(format, num) for the unsigned formats and a num in
\* range: struct.pack gives its low bytes
write_num(s, format, num) == write(s, SubSeq(num, 1, calcsize(format)))

\* write_compact_size with 253 in the one-byte form
write_compact_size_one_byte_253(s, size) ==
    IF size.neg THEN [s |-> s, err |-> "SerializationError"]
    ELSE IF Below(size.mag, 1) /\ size.mag[1] < 254
    THEN [s |-> write(s, <<size.mag[1]>>), err |-> "none"]
    ELSE IF Below(size.mag, 2)
    THEN [s |-> write_num(write(s, <<253>>), "<H", size.mag), err |-> "none"]
    ELSE IF Below(size.mag, 4)
    THEN [s |-> write_num(write(s, <<254>>), "<I", size.mag), err |-> "none"]
    ELSE [s |-> write_num(write(s, <<255>>), "<Q", size.mag), err |-> "none"]

\* BCDataStream.write_compact_size(size); size is [neg, mag], a sign and a
\* magnitude below 2^64 given as U64.  The result is the stream and the
\* exception raised.
write_compact_size(s, size) ==
    IF size.neg THEN [s |-> s, err |-> "SerializationError"]
    ELSE IF Below(size.mag, 1) /\ size.mag[1] < 253
    THEN [s |-> write(s, <<size.mag[1]>>), err |-> "none"]
    ELSE IF Below(size.mag, 2)
    THEN [s |-> write_num(write(s, <<253>>), "<H", size.mag), err |-> "none"]
    ELSE IF Below(size.mag, 4)
    THEN [s |-> write_num(write(s, <<254>>), "<I", size.mag), err |-> "none"]
    ELSE [s |-> write_num(write(s, <<255>>), "<Q", size.mag), err |-> "none"]

----------------------------------------------------------------------------
(* Scripts *)

OP_0 == <<0>>
OP_CHECKMULTISIG == <<174>>

\* bitcoin.push_script(data)
push_script(data) ==
    IF Len(data) = 0 \/ (Len(data) = 1 /\ data[1] = 0) THEN OP_0
    ELSE IF Len(data) = 1 /\ data[1] <= 16 THEN <<80 + data[1]>>
    ELSE IF Len(data) = 1 /\ data[1] = 129 THEN <<79>>
    ELSE IF Len(data) < 76 THEN <<Len(data)>> \o data
    ELSE IF Len(data) <= 255 THEN <<76, Len(data)>> \o data
    ELSE <<77>> \o int_to_hex(Len(data), 2) \o data

\* bitcoin.add_number_to_script(i) for 0 <= i <= 16
add_number_to_script(i) == IF i = 0 THEN OP_0 ELSE <<80 + i>>

\* multisig_script(public_keys, m); the assertion fails outside 1 <= m <= n <= 15
multisig_script_ok(public_keys, m) == 1 <= m /\ m <= Len(public_keys) /\ Len(public_keys) <= 15

multisig_script(public_keys, m) ==
    add_number_to_script(m)
    \o Concat(List([i \in 1..Len(public_keys) |-> push_script(public_keys[i])]))
    \o add_number_to_script(Len(public_keys)) \o OP_CHECKMULTISIG

\* bitcoin.pubkeyhash_to_p2pkh_script / address_to_script for the two address kinds
p2pkh_script(h160) == <<118, 169, 20>> \o h160 \o <<136, 172>>
p2sh_script(h160) == <<169, 20>> \o h160 \o <<135>>
p2pk_script(pubkey) == push_script(pubkey) \o <<172>>

\* get_script_type_from_output_script for the two templates
get_script_type_from_output_script(b) ==
    IF Len(b) = 25 /\ SubSeq(b, 1, 3) = <<118, 169, 20>> /\ SubSeq(b, 24, 25) = <<136, 172>>
    THEN "p2pkh"
    ELSE IF Len(b) = 23 /\ SubSeq(b, 1, 2) = <<169, 20>> /\ b[23] = 135
    THEN "p2sh"
    ELSE "none"

\* An address is modelled by the output script it stands for (address and
\* script determine each other for p2pkh and p2sh); None when no template matches.
get_address_from_output_script(b) ==
    IF get_script_type_from_output_script(b) = "none" THEN None ELSE Some(b)

hash160_to_p2sh(h160) == p2sh_script(h160)
hash160_to_p2pkh(h160) == p2pkh_script(h160)

----------------------------------------------------------------------------
(* Transaction: header constants and the object *)

\* 0x03C48270 and 0x892F2085 as read_uint32 finds them on the wire
OVERWINTERED_VERSION_GROUP_ID == <<112, 130, 196, 3>>
SAPLING_VERSION_GROUP_ID == <<133, 32, 47, 137>>

\* TOTAL_COIN_SUPPLY_LIMIT_IN_BTC * COIN = 21000000 * 100000000, little-endian
TOTAL_COIN_SUPPLY_LIMIT == <<0, 64, 7, 90, 240, 117, 7, 0>>

ShieldedSpendSize == 384
ShieldedOutputSize == 948
JoinSplitSizeV4 == 1698
JoinSplitSizeV3 == 1802

\* 0xffffffff - 1, the default nsequence of TxInput.__init__
DefaultSequence == <<254, 255, 255, 255>>

TxOutpoint(txid, out_idx) == [txid |-> txid, out_idx |-> out_idx]

is_coinbase(prevout) == prevout.txid = Bytes(32, 0)

TxInput(prevout, script_sig, nsequence) ==
    [prevout |-> prevout, script_sig |-> script_sig, nsequence |-> nsequence]

TxOutput(scriptpubkey, value) == [scriptpubkey |-> scriptpubkey, value |-> value]

\* Transaction.__init__(raw): raw is None or the bytes given
Transaction(raw) ==
    [cached_network_ser |-> raw,
     inputs |-> None, outputs |-> None,
     locktime |-> 0, version |-> 4, overwintered |-> TRUE,
     versionGroupId |-> SAPLING_VERSION_GROUP_ID,
     expiryHeight |-> 0, valueBalance |-> 0,
     shieldedSpends |-> None, shieldedOutputs |-> None, joinSplits |-> None,
     joinSplitPubKey |-> None, joinSplitSig |-> None, bindingSig |-> None,
     cached_txid |-> None]

\* value > limit on two unsigned 64-bit little-endian values
RECURSIVE GreaterLE(_, _, _)
GreaterLE(a, b, k) ==
    IF k = 0 THEN FALSE
    ELSE IF a[k] # b[k] THEN a[k] > b[k]
    ELSE GreaterLE(a, b, k - 1)

----------------------------------------------------------------------------
(* Parsing a network transaction *)

\* parse_input, given r5
parse_input_r5(r1, r2, r4, r5) ==
    IF ~r5.ok THEN r5 ELSE
    ReadOk(r5.s, TxInput(TxOutpoint(Reverse(r1.v), r2.v), Some(r4.v), r5.v))

\* parse_input, given r3
parse_input_r3(r1, r2, r3) ==
    IF ~r3.ok THEN r3 ELSE
    LET r4 == read_bytes(r3.s, r3.v) IN
    IF ~r4.ok THEN r4 ELSE
    parse_input_r5(r1, r2, r4, read_uint32_raw(r4.s))

\* parse_input, given r2
parse_input_r2(r1, r2) ==
    IF ~r2.ok THEN r2 ELSE
    parse_input_r3(r1, r2, read_compact_size(r2.s))

parse_input(s) ==
    LET r1 == read_bytes(s, 32) IN
    IF ~r1.ok THEN r1 ELSE
    parse_input_r2(r1, read_uint32(r1.s))

\* parse_output, given r2
parse_output_r2(r1, r2) ==
    IF ~r2.ok THEN r2 ELSE
    LET r3 == read_bytes(r2.s, r2.v) IN
    IF ~r3.ok THEN r3 ELSE
    ReadOk(r3.s, TxOutput(r3.v, SignedLE64(r1.v)))

parse_output(s) ==
    LET r1 == read_int64_raw(s) IN
    IF ~r1.ok THEN r1 ELSE
    IF r1.v[8] < 128 /\ GreaterLE(r1.v, TOTAL_COIN_SUPPLY_LIMIT, 8)
    THEN ReadFail(r1.s, "SerializationError") ELSE
    IF r1.v[8] >= 128 THEN ReadFail(r1.s, "SerializationError") ELSE
    parse_output_r2(r1, read_compact_size(r1.s))

RECURSIVE parse_inputs(_, _, _)
\* parse_inputs, given r
parse_inputs_r(n, acc, r) ==
    IF ~r.ok THEN r ELSE parse_inputs(r.s, n - 1, Append(acc, r.v))

\* [parse_input(vds) for i in range(n)]: the list, or the first failure
parse_inputs(s, n, acc) ==
    IF n = 0 THEN ReadOk(s, acc)
    ELSE parse_inputs_r(n, acc, parse_input(s))

RECURSIVE parse_outputs(_, _, _)
\* parse_outputs, given r
parse_outputs_r(n, acc, r) ==
    IF ~r.ok THEN r ELSE parse_outputs(r.s, n - 1, Append(acc, r.v))

parse_outputs(s, n, acc) ==
    IF n = 0 THEN ReadOk(s, acc)
    ELSE parse_outputs_r(n, acc, parse_output(s))

(* read_vds runs in stages over p = [s, tx, err, n_sh_sp, n_sh_out]; a    *)
(* stage that raises sets err and leaves in tx what had been assigned so   *)
(* far, as the exception leaves the object.                                *)

Raise(p, r) == [p EXCEPT !.err = r.err, !.s = r.s]

\* read_header, given p1
read_header_p1(r, overwintered, version, p1) ==
    IF ~overwintered THEN p1 ELSE
    IF version \notin {3, 4} THEN [p1 EXCEPT !.err = "TransactionVersionError"] ELSE
    LET g == read_uint32_raw(r.s) IN
    IF ~g.ok THEN Raise(p1, g) ELSE
    IF (version = 3 /\ g.v # OVERWINTERED_VERSION_GROUP_ID)
       \/ (version = 4 /\ g.v # SAPLING_VERSION_GROUP_ID)
    THEN [p1 EXCEPT !.err = "TransactionVersionError", !.s = g.s]
    ELSE [p1 EXCEPT !.tx.versionGroupId = g.v, !.s = g.s]

\* read_header, given tx1
read_header_tx1(p, r, overwintered, version, tx1) ==
    read_header_p1(r, overwintered, version, [p EXCEPT !.tx = tx1, !.s = r.s])

\* read_header, given version
read_header_version(p, r, overwintered, version) ==
    read_header_tx1(p, r, overwintered, version,
        [p.tx EXCEPT !.overwintered = overwintered, !.version = version])

read_header(p) ==
    LET r == read_num_bytes(p.s, 4) IN
    IF ~r.ok THEN Raise(p, r) ELSE
    LET overwintered == r.v[4] >= 128
    IN  read_header_version(p, r, overwintered,
            UnsignedLE(<<r.v[1], r.v[2], r.v[3], r.v[4] % 128>>))

\* read_vin, given r
read_vin_r(p, r) ==
    IF ~r.ok THEN Raise(p, r) ELSE
    [p EXCEPT !.tx.inputs = Some(r.v), !.s = r.s]

\* read_vin, given n
read_vin_n(p, n) ==
    IF ~n.ok THEN Raise(p, n) ELSE
    read_vin_r(p, parse_inputs(n.s, n.v, <<>>))

read_vin(p) ==
    IF p.err # "none" THEN p ELSE
    read_vin_n(p, read_compact_size(p.s))

\* read_vout, given r
read_vout_r(p, r) ==
    IF ~r.ok THEN Raise(p, r) ELSE
    [p EXCEPT !.tx.outputs = Some(r.v), !.s = r.s]

\* read_vout, given n
read_vout_n(p, n) ==
    IF ~n.ok THEN Raise(p, n) ELSE
    read_vout_r(p, parse_outputs(n.s, n.v, <<>>))

read_vout(p) ==
    IF p.err # "none" THEN p ELSE
    read_vout_n(p, read_compact_size(p.s))

\* read_locktime, given r
read_locktime_r(p, r) ==
    IF ~r.ok THEN Raise(p, r) ELSE
    [p EXCEPT !.tx.locktime = r.v, !.s = r.s]

read_locktime(p) ==
    IF p.err # "none" THEN p ELSE
    read_locktime_r(p, read_uint32(p.s))

\* read_expiry, given r
read_expiry_r(p, r) ==
    IF ~r.ok THEN Raise(p, r) ELSE
    [p EXCEPT !.tx.expiryHeight = r.v, !.s = r.s]

read_expiry(p) ==
    IF p.err # "none" \/ ~p.tx.overwintered THEN p ELSE
    read_expiry_r(p, read_uint32(p.s))

read_value_balance(p) ==
    IF p.err # "none" \/ ~p.tx.overwintered \/ p.tx.version # 4 THEN p ELSE
    LET r == read_int64_raw(p.s) IN
    IF ~r.ok THEN Raise(p, r) ELSE
    [p EXCEPT !.tx.valueBalance = SignedLE64(r.v), !.s = r.s]

\* read_shielded_spends, given r
read_shielded_spends_r(p, n, r) ==
    IF ~r.ok THEN Raise(p, r) ELSE
    [p EXCEPT !.tx.shieldedSpends = Some(r.v), !.s = r.s, !.n_sh_sp = n.v]

\* read_shielded_spends, given n
read_shielded_spends_n(p, n) ==
    IF ~n.ok THEN Raise(p, n) ELSE
    IF n.v = 0 THEN [p EXCEPT !.s = n.s, !.n_sh_sp = 0] ELSE
    read_shielded_spends_r(p, n, read_bytes(n.s, n.v * ShieldedSpendSize))

read_shielded_spends(p) ==
    IF p.err # "none" \/ ~p.tx.overwintered \/ p.tx.version # 4 THEN p ELSE
    read_shielded_spends_n(p, read_compact_size(p.s))

\* read_shielded_outputs, given r
read_shielded_outputs_r(p, n, r) ==
    IF ~r.ok THEN Raise(p, r) ELSE
    [p EXCEPT !.tx.shieldedOutputs = Some(r.v), !.s = r.s, !.n_sh_out = n.v]

\* read_shielded_outputs, given n
read_shielded_outputs_n(p, n) ==
    IF ~n.ok THEN Raise(p, n) ELSE
    IF n.v = 0 THEN [p EXCEPT !.s = n.s, !.n_sh_out = 0] ELSE
    read_shielded_outputs_r(p, n, read_bytes(n.s, n.v * ShieldedOutputSize))

read_shielded_outputs(p) ==
    IF p.err # "none" \/ ~p.tx.overwintered \/ p.tx.version # 4 THEN p ELSE
    read_shielded_outputs_n(p, read_compact_size(p.s))

\* read_join_splits, given p2 and g
read_join_splits_p2(p2, g) ==
    IF ~g.ok THEN Raise(p2, g) ELSE
    [p2 EXCEPT !.tx.joinSplitSig = Some(g.v), !.s = g.s]

\* read_join_splits, given r
read_join_splits_r(p, r) ==
    IF ~r.ok THEN Raise(p, r) ELSE
    LET p1 == [p EXCEPT !.tx.joinSplits = Some(r.v), !.s = r.s]
        k == read_bytes(r.s, 32) IN
    IF ~k.ok THEN Raise(p1, k) ELSE
    read_join_splits_p2(
        [p1 EXCEPT !.tx.joinSplitPubKey = Some(k.v), !.s = k.s],
        read_bytes(k.s, 64))

\* read_join_splits, given n
read_join_splits_n(p, n) ==
    IF ~n.ok THEN Raise(p, n) ELSE
    IF n.v = 0 THEN [p EXCEPT !.s = n.s] ELSE
    read_join_splits_r(p,
        read_bytes(n.s, n.v * (IF p.tx.version = 3 THEN JoinSplitSizeV3
                                                     ELSE JoinSplitSizeV4)))

read_join_splits(p) ==
    IF p.err # "none" \/ ~p.tx.overwintered THEN p ELSE
    read_join_splits_n(p, read_compact_size(p.s))

read_binding_sig(p) ==
    IF p.err # "none" \/ ~p.tx.overwintered THEN p ELSE
    IF ~(p.tx.version = 4 /\ p.n_sh_sp + p.n_sh_out > 0) THEN p ELSE
    LET r == read_bytes(p.s, 64) IN
    IF ~r.ok THEN Raise(p, r) ELSE
    [p EXCEPT !.tx.bindingSig = Some(r.v), !.s = r.s]

check_extra_junk(p, alone_data) ==
    IF p.err # "none" THEN p ELSE
    IF alone_data /\ can_read_more(p.s) THEN [p EXCEPT !.err = "SerializationError"]
    ELSE p

\* read_vds, given p3
read_vds_p3(alone_data, p3) ==
    check_extra_junk(p3, alone_data)

\* read_vds, given p2
read_vds_p2(alone_data, p2) ==
    read_vds_p3(alone_data, read_binding_sig(read_join_splits(p2)))

\* read_vds, given p1
read_vds_p1(alone_data, p1) ==
    read_vds_p2(alone_data,
        read_shielded_outputs(read_shielded_spends(read_value_balance(read_expiry(p1)))))

\* Transaction.read_vds(vds, alone_data, tx): [tx, err, s]
read_vds(vds, alone_data, tx) ==
    LET p0 == [s |-> vds, tx |-> tx, err |-> "none", n_sh_sp |-> 0, n_sh_out |-> 0]
    IN  read_vds_p1(alone_data, read_locktime(read_vout(read_vin(read_header(p0)))))

\* deserialize, given p
deserialize_p(p) ==
    [tx |-> p.tx, err |-> p.err]

\* Transaction.deserialize(): [tx, err]
deserialize(tx) ==
    IF IsNone(tx.cached_network_ser) THEN [tx |-> tx, err |-> "none"]
    ELSE IF IsSome(tx.inputs) THEN [tx |-> tx, err |-> "none"]
    ELSE deserialize_p(read_vds(write(BCDataStream, Val(tx.cached_network_ser)), TRUE, tx))

----------------------------------------------------------------------------
(* PartialTxInput *)

EmptyMap == <<>>

\* dict.update
Update(f, g) == [k \in DOMAIN f \cup DOMAIN g |-> IF k \in DOMAIN g THEN g[k] ELSE f[k]]

\* PartialTxInput.__init__
PartialTxInput(prevout, script_sig, nsequence) ==
    [prevout |-> prevout, script_sig |-> script_sig, nsequence |-> nsequence,
     utxo |-> None, part_sigs |-> EmptyMap, sighash |-> None,
     bip32_paths |-> EmptyMap, redeem_script |-> None, unknown |-> EmptyMap,
     script_type |-> "unknown", num_sig |-> 0, pubkeys |-> <<>>,
     trusted_value_sats |-> None, trusted_address |-> None]

IsPartialTxInput(txin) == "part_sigs" \in DOMAIN txin

\* PartialTxInput.from_txin
from_txin(txin) == PartialTxInput(txin.prevout, None, txin.nsequence)

is_coinbase_input(txin) == is_coinbase(txin.prevout)

\* PartialTxInput.is_complete
txin_is_complete(txin) ==
    IF is_coinbase_input(txin) THEN TRUE
    ELSE IF IsSome(txin.script_sig) THEN TRUE
    ELSE LET s == Cardinality(DOMAIN txin.part_sigs)
         IN IF txin.script_type \in {"p2pk", "p2pkh"} THEN s >= 1
            ELSE IF txin.script_type \in {"p2sh"} THEN s >= txin.num_sig
            ELSE FALSE

\* PartialTxInput.scriptpubkey (utxo outputs are present: a utxo is a parsed tx)
txin_scriptpubkey(txin) ==
    IF IsSome(txin.trusted_address) THEN txin.trusted_address
    ELSE IF IsSome(txin.utxo)
    THEN LET outs == Val(Val(txin.utxo).outputs)
         IN IF txin.prevout.out_idx + 1 \in DOMAIN outs
            THEN Some(outs[txin.prevout.out_idx + 1].scriptpubkey)
            ELSE None
    ELSE None

\* PartialTxInput.address
txin_address(txin) ==
    IF IsSome(txin.trusted_address) THEN txin.trusted_address
    ELSE IF IsSome(txin_scriptpubkey(txin)) /\ Val(txin_scriptpubkey(txin)) # <<>>
    THEN get_address_from_output_script(Val(txin_scriptpubkey(txin)))
    ELSE None

\* PartialTxInput.value_sats
value_sats(txin) ==
    IF IsSome(txin.trusted_value_sats) THEN txin.trusted_value_sats
    ELSE IF IsSome(txin.utxo)
    THEN LET outs == Val(Val(txin.utxo).outputs)
         IN IF txin.prevout.out_idx + 1 \in DOMAIN outs
            THEN Some(outs[txin.prevout.out_idx + 1].value)
            ELSE None
    ELSE None

----------------------------------------------------------------------------
(* Building scriptSigs and serializing to the network format.  Operators    *)
(* that can raise return [ok, v, err].                                     *)

Ok(v) == [ok |-> TRUE, v |-> v, err |-> "none"]
Err(e) == [ok |-> FALSE, v |-> <<>>, err |-> e]

SelectNonEmpty(sigs) == SelectSeq(sigs, LAMBDA x : x # <<>>)

\* Transaction.get_siglist: <<pk_list, sig_list>>
get_siglist(txin, estimate_size) ==
    IF is_coinbase_input(txin) THEN <<(<<>>), (<<>>)>>
    ELSE IF estimate_size
    THEN LET pubkey_size == IF Len(txin.pubkeys) > 0 THEN Len(txin.pubkeys[1]) ELSE 33
             num_pubkeys == IF Len(txin.pubkeys) > 1 THEN Len(txin.pubkeys) ELSE 1
             num_sig == IF txin.num_sig > 1 THEN txin.num_sig ELSE 1
         IN <<List([i \in 1..num_pubkeys |-> Bytes(pubkey_size, 0)]),
              List([i \in 1..num_sig |-> Bytes(72, 0)])>>
    ELSE LET sig_list == List([i \in 1..Len(txin.pubkeys) |->
                             IF txin.pubkeys[i] \in DOMAIN txin.part_sigs
                             THEN txin.part_sigs[txin.pubkeys[i]] ELSE <<>>])
         IN <<txin.pubkeys,
              IF txin_is_complete(txin) THEN SelectNonEmpty(sig_list) ELSE sig_list>>

\* input_script, given type
input_script_type(txin, pubkeys, sig_list, guess, guessed, type) ==
    IF guess /\ guessed = "error" THEN Err("Exception")
    ELSE IF guess /\ type = "p2sh"
    THEN Ok(push_script(OP_0 \o push_script(hash_160(pubkeys[1]))))
    ELSE IF type = "p2pk"
    THEN IF Len(sig_list) = 0 THEN Err("IndexError")
         ELSE Ok(push_script(sig_list[1]))
    ELSE IF type = "p2sh"
    THEN IF ~multisig_script_ok(pubkeys, txin.num_sig) THEN Err("AssertionError")
         ELSE Ok(OP_0
                 \o Concat(List([i \in 1..Len(sig_list) |-> push_script(sig_list[i])]))
                 \o push_script(multisig_script(pubkeys, txin.num_sig)))
    ELSE IF type = "p2pkh"
    THEN IF Len(sig_list) = 0 \/ Len(pubkeys) = 0 THEN Err("IndexError")
         ELSE Ok(push_script(sig_list[1]) \o push_script(pubkeys[1]))
    ELSE Err("UnknownTxinType")

\* input_script, given guessed
input_script_guessed(txin, pubkeys, sig_list, guess, guessed) ==
    input_script_type(txin, pubkeys, sig_list, guess, guessed,
        IF guess THEN guessed ELSE txin.script_type)

\* input_script, given addr
input_script_addr(txin, pubkeys, sig_list, guess, addr) ==
    input_script_guessed(txin, pubkeys, sig_list, guess,
        IF IsNone(addr) THEN "error"
        ELSE get_script_type_from_output_script(Val(addr)))

\* input_script, given pubkeys and sig_list
input_script_pubkeys(txin, estimate_size, pubkeys, sig_list) ==
    LET guess == txin.script_type \in {"address", "unknown"} /\ estimate_size
    IN  input_script_addr(txin, pubkeys, sig_list, guess, txin_address(txin))

\* input_script, given sl
input_script_sl(txin, estimate_size, sl) ==
    input_script_pubkeys(txin, estimate_size, sl[1], sl[2])

\* Transaction.input_script
input_script(txin, estimate_size) ==
    IF IsSome(txin.script_sig) THEN Ok(Val(txin.script_sig))
    ELSE IF is_coinbase_input(txin) THEN Ok(<<>>)
    ELSE IF ~IsPartialTxInput(txin) THEN Err("AssertionError")
    ELSE
    input_script_sl(txin, estimate_size, get_siglist(txin, estimate_size))

\* TxOutpoint.serialize_to_network
outpoint_serialize_to_network(prevout) ==
    Reverse(prevout.txid) \o int_to_hex(prevout.out_idx, 4)

\* Transaction.serialize_input
serialize_input(txin, script) ==
    outpoint_serialize_to_network(txin.prevout)
    \o var_int(Len(script)) \o script \o txin.nsequence

\* TxOutput.serialize_to_network
txout_serialize_to_network(o) ==
    int_to_hex(o.value, 8) \o var_int(Len(o.scriptpubkey)) \o o.scriptpubkey

Truthy(o) == IsSome(o) /\ Val(o) # <<>>

BlobOrEmpty(o) == IF IsSome(o) THEN Val(o) ELSE <<>>

\* 0x80000000 | version, as four little-endian bytes
\* a faulty variant of overwintered_header: the fOverwintered flag is not set
overwintered_header_unflagged(version) == int_to_hex(version, 4)

overwintered_header(version) ==
    LET b == int_to_hex(version, 4) IN [b EXCEPT ![4] = (b[4] % 128) + 128]

\* network_bytes, given shieldedSpends and shieldedOutputs and joinSplits
network_bytes_shieldedSpends(tx, nLocktime, txins, txouts, v4, nValueBalance, shieldedSpends, shieldedOutputs, joinSplits) ==
    LET bindingSig == IF v4 /\ (Truthy(tx.shieldedSpends) \/ Truthy(tx.shieldedOutputs))
                      THEN BlobOrEmpty(tx.bindingSig) ELSE <<>>
        joinSplitPubKey == IF Truthy(tx.joinSplits)
                           THEN BlobOrEmpty(tx.joinSplitPubKey) ELSE <<>>
        joinSplitSig == IF Truthy(tx.joinSplits)
                        THEN BlobOrEmpty(tx.joinSplitSig) ELSE <<>>
    IN  overwintered_header(tx.version) \o tx.versionGroupId
        \o txins \o txouts \o nLocktime
        \o int_to_hex(tx.expiryHeight, 4) \o nValueBalance
        \o shieldedSpends \o shieldedOutputs
        \o joinSplits \o joinSplitPubKey \o joinSplitSig \o bindingSig

\* network_bytes, given txins and txouts
network_bytes_txins(tx, nLocktime, txins, txouts) ==
    IF tx.overwintered
    THEN LET v4 == tx.version = 4
             nValueBalance == IF v4 THEN int_to_hex(tx.valueBalance, 8) ELSE <<>>
         IN  network_bytes_shieldedSpends(tx, nLocktime, txins, txouts, v4, nValueBalance,
                 IF ~v4 THEN <<>>
                 ELSE IF Truthy(tx.shieldedSpends)
                 THEN var_int(Len(Val(tx.shieldedSpends)) \div ShieldedSpendSize)
                      \o Val(tx.shieldedSpends)
                 ELSE var_int(0),
                 IF ~v4 THEN <<>>
                 ELSE IF Truthy(tx.shieldedOutputs)
                 THEN var_int(Len(Val(tx.shieldedOutputs)) \div ShieldedOutputSize)
                      \o Val(tx.shieldedOutputs)
                 ELSE var_int(0),
                 IF Truthy(tx.joinSplits)
                 THEN var_int(Len(Val(tx.joinSplits))
                              \div (IF v4 THEN JoinSplitSizeV4 ELSE JoinSplitSizeV3))
                      \o Val(tx.joinSplits)
                 ELSE var_int(0))
    ELSE int_to_hex(tx.version, 4) \o txins \o txouts \o nLocktime

\* The body of Transaction.serialize_to_network once the inputs, the
\* scriptSig chosen for each input, and the outputs are at hand.
network_bytes(tx, ins, scripts, outs) ==
    LET nLocktime == int_to_hex(tx.locktime, 4)
    IN  network_bytes_txins(tx, nLocktime,
            var_int(Len(ins))
            \o Concat(List([i \in 1..Len(ins) |-> serialize_input(ins[i], scripts[i])])),
            var_int(Len(outs))
            \o Concat(List([i \in 1..Len(outs) |-> txout_serialize_to_network(outs[i])])))

RECURSIVE create_script_sigs(_, _, _, _)
\* create_script_sigs, given r
create_script_sigs_r(ins, estimate_size, include_sigs, acc, r) ==
    IF ~r.ok THEN r
    ELSE create_script_sigs(ins, estimate_size, include_sigs, Append(acc, r.v))

\* create_script_sig for every input: the scripts, or the first exception
create_script_sigs(ins, estimate_size, include_sigs, acc) ==
    IF Len(acc) = Len(ins) THEN Ok(acc)
    ELSE IF ~include_sigs
    THEN create_script_sigs(ins, estimate_size, include_sigs, Append(acc, <<>>))
    ELSE create_script_sigs_r(ins, estimate_size, include_sigs, acc,
             input_script(ins[Len(acc) + 1], estimate_size))

\* serialize_to_network_of, given sc
serialize_to_network_of_sc(tx, ins, outs, sc) ==
    IF ~sc.ok THEN sc ELSE Ok(network_bytes(tx, ins, sc.v, outs))

\* Transaction.serialize_to_network on a deserialized object whose inputs
\* are ins (for a PartialTransaction, the objects its list refers to).
serialize_to_network_of(tx, ins, outs, estimate_size, include_sigs) ==
    serialize_to_network_of_sc(tx, ins, outs,
        create_script_sigs(ins, estimate_size, include_sigs, <<>>))

\* serialize_to_network, given r
serialize_to_network_r(d, r) ==
    [tx |-> d.tx, ok |-> r.ok, v |-> r.v, err |-> r.err]

\* serialize_to_network, given d
serialize_to_network_d(estimate_size, include_sigs, d) ==
    IF d.err # "none" THEN [tx |-> d.tx, ok |-> FALSE, v |-> <<>>, err |-> d.err]
    ELSE IF IsNone(d.tx.inputs) \/ IsNone(d.tx.outputs)
    THEN [tx |-> d.tx, ok |-> FALSE, v |-> <<>>, err |-> "TypeError"]
    ELSE serialize_to_network_r(d,
             serialize_to_network_of(d.tx, Val(d.tx.inputs), Val(d.tx.outputs),
                                     estimate_size, include_sigs))

\* Transaction.serialize_to_network of a plain Transaction: [tx, ok, v, err]
serialize_to_network(tx, estimate_size, include_sigs) ==
    serialize_to_network_d(estimate_size, include_sigs, deserialize(tx))

\* Transaction.invalidate_ser_cache
invalidate_ser_cache(tx) == [tx EXCEPT !.cached_network_ser = None, !.cached_txid = None]

\* serialize, given r
serialize_r(r) ==
    IF r.ok THEN [r EXCEPT !.tx.cached_network_ser = Some(r.v)] ELSE r

\* Transaction.serialize of a plain Transaction: [tx, ok, v, err]
serialize(tx) ==
    IF ~Truthy(tx.cached_network_ser)
    THEN serialize_r(serialize_to_network(tx, FALSE, TRUE))
    ELSE [tx |-> tx, ok |-> TRUE, v |-> Val(tx.cached_network_ser), err |-> "none"]

\* txid, given r
txid_r(r) ==
    IF r.err = "UnknownTxinType"
    THEN [tx |-> r.tx, ok |-> TRUE, v |-> None, err |-> "none"]
    ELSE IF ~r.ok THEN [r EXCEPT !.v = None]
    ELSE [tx |-> [r.tx EXCEPT !.cached_txid = Some(Reverse(sha256d(r.v)))],
          ok |-> TRUE, v |-> Some(Reverse(sha256d(r.v))), err |-> "none"]

\* txid, given d
txid_d(d) ==
    IF d.err # "none" THEN [tx |-> d.tx, ok |-> FALSE, v |-> None, err |-> d.err]
    ELSE txid_r(serialize_to_network(d.tx, FALSE, TRUE))

\* Transaction.txid of a plain Transaction (is_complete() is True): [tx, ok, v, err];
\* v is the optional txid
txid(tx) ==
    IF IsSome(tx.cached_txid)
    THEN [tx |-> tx, ok |-> TRUE, v |-> tx.cached_txid, err |-> "none"]
    ELSE txid_d(deserialize(tx))

\* Transaction.locktime / version setters
set_locktime(tx, value) == invalidate_ser_cache([tx EXCEPT !.locktime = value])

set_version(tx, value) ==
    invalidate_ser_cache([tx EXCEPT !.version = value,
                                    !.overwintered = IF value \in {1, 2} THEN FALSE ELSE @])

----------------------------------------------------------------------------
(* Codec scenario: a Transaction object built from wire bytes.  The bytes   *)
(* are laid out field by field as the network format prescribes, from a    *)
(* description d of the fields.                                            *)

MaxTxIn == 2
MaxTxOut == 2
MaxShielded == 1

RECURSIVE WireLE(_, _)
WireLE(n, w) == IF w = 0 THEN <<>> ELSE <<n % 256>> \o WireLE(n \div 256, w - 1)

WireTxid(i) == List([k \in 1..32 |-> IF k = 1 THEN 16 + i ELSE k])

WireScriptSig(i) == IF i = 1 THEN <<2, 48, 1, 1, 7>> ELSE <<>>

WireTxIn(i) ==
    TxInput(TxOutpoint(WireTxid(i), i - 1), Some(WireScriptSig(i)),
            IF i = 1 THEN <<255, 255, 255, 255>> ELSE DefaultSequence)

WireTxOut(j) == TxOutput(p2pkh_script(Bytes(20, j)), 1000000 * j + 300 * (j - 1))

WireBlob(n, size, c) == List([k \in 1..(n * size) |-> (c + k) % 256])

TxDescs ==
    { d \in [kind : {"v1", "v2", "v3", "v4"},
             nin : 0..MaxTxIn, nout : 0..MaxTxOut,
             locktime : {0, 500000}, expiry : {0, 70000},
             vb : {0, 5000, -3}, nss : 0..MaxShielded, nso : 0..MaxShielded,
             njs : 0..MaxShielded] :
        /\ d.kind \in {"v1", "v2"} => d.expiry = 0 /\ d.njs = 0
        /\ d.kind # "v4" => d.vb = 0 /\ d.nss = 0 /\ d.nso = 0
        /\ d.nss + d.nso + d.njs <= MaxShielded + 1
        /\ d.nss + d.nso + d.njs > 0 => d.nin = 1 /\ d.nout = 1 /\ d.locktime = 0 }

\* WireFormat, given body
WireFormat_body(d, body) ==
    LET js == IF d.njs = 0 THEN <<0>>
              ELSE <<d.njs>>
                   \o WireBlob(d.njs, IF d.kind = "v3" THEN 1802 ELSE 1698, 3)
                   \o WireBlob(1, 32, 4) \o WireBlob(1, 64, 5)
    IN  CASE d.kind = "v1" -> <<1, 0, 0, 0>> \o body
          [] d.kind = "v2" -> <<2, 0, 0, 0>> \o body
          [] d.kind = "v3" -> <<3, 0, 0, 128, 112, 130, 196, 3>> \o body
                              \o WireLE(d.expiry, 4) \o js
          [] d.kind = "v4" -> <<4, 0, 0, 128, 133, 32, 47, 137>> \o body
                              \o WireLE(d.expiry, 4) \o WireLE(d.vb, 8)
                              \o (IF d.nss = 0 THEN <<0>>
                                  ELSE <<d.nss>> \o WireBlob(d.nss, 384, 1))
                              \o (IF d.nso = 0 THEN <<0>>
                                  ELSE <<d.nso>> \o WireBlob(d.nso, 948, 2))
                              \o js
                              \o (IF d.nss + d.nso > 0 THEN WireBlob(1, 64, 6) ELSE <<>>)

\* WireFormat, given ins and outs
WireFormat_ins(d, ins, outs) ==
    WireFormat_body(d, <<d.nin>> \o ins \o <<d.nout>> \o outs \o WireLE(d.locktime, 4))

WireFormat(d) ==
    WireFormat_ins(d,
        Concat(List([i \in 1..d.nin |->
          Reverse(WireTxid(i)) \o WireLE(i - 1, 4)
          \o <<Len(WireScriptSig(i))>> \o WireScriptSig(i)
          \o WireTxIn(i).nsequence])),
        Concat(List([j \in 1..d.nout |->
         WireLE(WireTxOut(j).value, 8)
         \o <<Len(WireTxOut(j).scriptpubkey)>> \o WireTxOut(j).scriptpubkey])))

\* The object a caller assembles field by field from the same description
TransactionOf(d) ==
    [Transaction(None) EXCEPT
        !.inputs = Some(List([i \in 1..d.nin |-> WireTxIn(i)])),
        !.outputs = Some(List([j \in 1..d.nout |-> WireTxOut(j)])),
        !.locktime = d.locktime,
        !.version = CASE d.kind = "v1" -> 1 [] d.kind = "v2" -> 2
                      [] d.kind = "v3" -> 3 [] d.kind = "v4" -> 4,
        !.overwintered = d.kind \in {"v3", "v4"},
        !.versionGroupId = IF d.kind = "v3" THEN OVERWINTERED_VERSION_GROUP_ID
                           ELSE SAPLING_VERSION_GROUP_ID,
        !.expiryHeight = d.expiry,
        !.valueBalance = d.vb,
        !.shieldedSpends = IF d.nss = 0 THEN None ELSE Some(WireBlob(d.nss, 384, 1)),
        !.shieldedOutputs = IF d.nso = 0 THEN None ELSE Some(WireBlob(d.nso, 948, 2)),
        !.joinSplits = IF d.njs = 0 THEN None
                       ELSE Some(WireBlob(d.njs, IF d.kind = "v3" THEN 1802 ELSE 1698, 3)),
        !.joinSplitPubKey = IF d.njs = 0 THEN None ELSE Some(WireBlob(1, 32, 4)),
        !.joinSplitSig = IF d.njs = 0 THEN None ELSE Some(WireBlob(1, 64, 5)),
        !.bindingSig = IF d.nss + d.nso > 0 THEN Some(WireBlob(1, 64, 6)) ELSE None]

\* The fields a parse assigns
TxFields(tx) ==
    [version |-> tx.version, overwintered |-> tx.overwintered,
     inputs |-> tx.inputs, outputs |-> tx.outputs, locktime |-> tx.locktime,
     expiryHeight |-> tx.expiryHeight, valueBalance |-> tx.valueBalance,
     shieldedSpends |-> tx.shieldedSpends, shieldedOutputs |-> tx.shieldedOutputs,
     joinSplits |-> tx.joinSplits, joinSplitPubKey |-> tx.joinSplitPubKey,
     joinSplitSig |-> tx.joinSplitSig, bindingSig |-> tx.bindingSig]

NoResult == [op |-> "none", ok |-> TRUE, v |-> <<>>, err |-> "none"]

\* nothing written: the queue of the values written and not yet read back,
\* and whether every read so far took the value at its head,
\* together with the numbers of writes and reads made, the value the last
\* read_compact_size had at the head of the queue, the stream before the last
\* operation and that operation's argument
NoWrites ==
    [items |-> <<>>, aligned |-> TRUE, nw |-> 0, nr |-> 0,
     expect |-> None, before |-> [input |-> None, read_cursor |-> 0], arg |-> 0]

----------------------------------------------------------------------------
(* PartialTxOutput and PartialTransaction.  A PartialTransaction holds its  *)
(* inputs and outputs as references into the heap h of PartialTxInput and  *)
(* PartialTxOutput objects, so that two transactions can refer to one      *)
(* object as the Python lists do.                                          *)

\* PartialTxOutput.__init__
PartialTxOutput(scriptpubkey, value) ==
    [scriptpubkey |-> scriptpubkey, value |-> value,
     redeem_script |-> None, bip32_paths |-> EmptyMap, unknown |-> EmptyMap,
     script_type |-> "unknown", num_sig |-> 0, pubkeys |-> <<>>,
     is_mine |-> FALSE, is_change |-> FALSE]

\* PartialTxOutput.from_txout
from_txout(txout) == PartialTxOutput(txout.scriptpubkey, txout.value)

\* PartialTransaction.__init__
PartialTransaction ==
    [cached_network_ser |-> None,
     inputs |-> Some(<<>>), outputs |-> Some(<<>>),
     locktime |-> 0, version |-> 4, overwintered |-> TRUE,
     versionGroupId |-> SAPLING_VERSION_GROUP_ID,
     expiryHeight |-> 0, valueBalance |-> 0,
     shieldedSpends |-> None, shieldedOutputs |-> None, joinSplits |-> None,
     joinSplitPubKey |-> None, joinSplitSig |-> None, bindingSig |-> None,
     cached_txid |-> None,
     xpubs |-> EmptyMap, unknown |-> EmptyMap]

\* The input objects a PartialTransaction's list refers to
Ins(h, p) == List([i \in 1..Len(Val(p.inputs)) |-> h[Val(p.inputs)[i]]])

Outs(h, p) == List([j \in 1..Len(Val(p.outputs)) |-> h[Val(p.outputs)[j]]])

\* PartialTransaction.is_complete
is_complete(h, p) == \A i \in 1..Len(Val(p.inputs)) : txin_is_complete(h[Val(p.inputs)[i]])

\* validate_data, given utxo_txid and addr
validate_data_utxo_txid(txin, utxo_txid, addr) ==
    IF IsSome(txin.utxo) /\ Some(txin.prevout.txid) # utxo_txid
    THEN "PSBTInputConsistencyFailure"
    ELSE IF Truthy(txin.redeem_script) /\ IsSome(addr)
            /\ Val(addr) # hash160_to_p2sh(hash_160(Val(txin.redeem_script)))
    THEN "PSBTInputConsistencyFailure"
    ELSE "none"

\* PartialTxInput.validate_data: the exception it raises, or "none"
validate_data(txin) ==
    validate_data_utxo_txid(txin,
        IF IsSome(txin.utxo) THEN txid(Val(txin.utxo)).v ELSE None,
        txin_address(txin))

\* set_utxo, given v
set_utxo_v(d, t1, v) ==
    [txin |-> [t1 EXCEPT !.utxo = Some(txid(d.tx).tx)], err |-> v]

\* set_utxo, given d
set_utxo_d(txin, d) ==
    IF d.err # "none" THEN [txin |-> txin, err |-> "SerializationError"] ELSE
    LET t1 == [txin EXCEPT !.utxo = Some(d.tx)]
    IN  set_utxo_v(d, t1, validate_data(t1))

\* set_utxo, given ser
set_utxo_ser(txin, ser) ==
    IF ~ser.ok THEN [txin |-> txin, err |-> ser.err] ELSE
    set_utxo_d(txin, deserialize(Transaction(Some(ser.v))))

\* PartialTxInput.utxo setter, given a Transaction object: [txin, err].  The
\* object stored is the one validate_data has asked for its txid.
set_utxo(txin, tx) ==
    set_utxo_ser(txin, serialize(tx))

clear_fields_when_finalized(txin) ==
    [txin EXCEPT !.part_sigs = EmptyMap, !.sighash = None,
                 !.bip32_paths = EmptyMap, !.redeem_script = None]

\* finalize, given r
finalize_r(txin, r) ==
    IF ~r.ok THEN [txin |-> txin, err |-> r.err]
    ELSE [txin |-> clear_fields_when_finalized([txin EXCEPT !.script_sig = Some(r.v)]),
          err |-> "none"]

\* PartialTxInput.finalize: [txin, err]
finalize(txin) ==
    IF IsSome(txin.script_sig)
    THEN [txin |-> clear_fields_when_finalized(txin), err |-> "none"]
    ELSE IF txin_is_complete(txin)
    THEN finalize_r(txin, input_script(txin, FALSE))
    ELSE [txin |-> txin, err |-> "none"]

\* combine_with_other_txin, given u
combine_with_other_txin_u(other_txin, u) ==
    IF u.err # "none" THEN u ELSE
    LET t2 == [u.txin EXCEPT
                 !.part_sigs = Update(@, other_txin.part_sigs),
                 !.sighash = IF IsSome(other_txin.sighash)
                             THEN other_txin.sighash ELSE @,
                 !.bip32_paths = Update(@, other_txin.bip32_paths),
                 !.redeem_script = IF IsSome(other_txin.redeem_script)
                                   THEN other_txin.redeem_script ELSE @,
                 !.unknown = Update(@, other_txin.unknown)]
    IN finalize(t2)

\* PartialTxInput.combine_with_other_txin: [txin, err]
\* a faulty variant of combine_with_other_txin: the part_sigs of the other
\* input are not merged
combine_with_other_txin_own_sigs(txin, other_txin) ==
    LET t1 == IF IsSome(other_txin.script_sig)
              THEN [txin EXCEPT !.script_sig = other_txin.script_sig] ELSE txin
        u == IF IsPartialTxInput(other_txin) /\ IsSome(other_txin.utxo)
             THEN set_utxo(t1, Val(other_txin.utxo))
             ELSE [txin |-> t1, err |-> "none"]
    IN IF ~IsPartialTxInput(other_txin) THEN finalize(t1)
       ELSE IF u.err # "none" THEN u
       ELSE finalize([u.txin EXCEPT
                        !.sighash = IF IsSome(other_txin.sighash)
                                    THEN other_txin.sighash ELSE @,
                        !.bip32_paths = Update(@, other_txin.bip32_paths),
                        !.redeem_script = IF IsSome(other_txin.redeem_script)
                                          THEN other_txin.redeem_script ELSE @,
                        !.unknown = Update(@, other_txin.unknown)])

combine_with_other_txin(txin, other_txin) ==
    LET t1 == IF IsSome(other_txin.script_sig)
              THEN [txin EXCEPT !.script_sig = other_txin.script_sig] ELSE txin
    IN IF ~IsPartialTxInput(other_txin) THEN finalize(t1) ELSE
       combine_with_other_txin_u(other_txin,
           IF IsSome(other_txin.utxo) THEN set_utxo(t1, Val(other_txin.utxo))
           ELSE [txin |-> t1, err |-> "none"])

\* PartialTxOutput.combine_with_other_txout
combine_with_other_txout(txout, other_txout) ==
    IF "bip32_paths" \notin DOMAIN other_txout THEN txout
    ELSE [txout EXCEPT
            !.redeem_script = IF IsSome(other_txout.redeem_script)
                              THEN other_txout.redeem_script ELSE @,
            !.bip32_paths = Update(@, other_txout.bip32_paths),
            !.unknown = Update(@, other_txout.unknown)]

RECURSIVE finalize_from(_, _, _)
\* finalize_from, given f
finalize_from_f(h, ids, k, f) ==
    IF f.err # "none" THEN [h |-> h, err |-> f.err]
    ELSE finalize_from([h EXCEPT ![ids[k]] = f.txin], ids, k + 1)

\* PartialTransaction.finalize_psbt: [h, err]; inputs before the one that
\* raises stay finalized
finalize_from(h, ids, k) ==
    IF k > Len(ids) THEN [h |-> h, err |-> "none"]
    ELSE finalize_from_f(h, ids, k, finalize(h[ids[k]]))

finalize_psbt(h, p) == finalize_from(h, Val(p.inputs), 1)

\* Transaction.serialize_to_network of a PartialTransaction: [ok, v, err]
p_serialize_to_network(h, p, estimate_size, include_sigs) ==
    serialize_to_network_of(p, Ins(h, p), Outs(h, p), estimate_size, include_sigs)

\* p_txid, given r
p_txid_r(p, r) ==
    IF r.err = "UnknownTxinType"
    THEN [p |-> p, ok |-> TRUE, v |-> None, err |-> "none"]
    ELSE IF ~r.ok THEN [p |-> p, ok |-> FALSE, v |-> None, err |-> r.err]
    ELSE [p |-> [p EXCEPT !.cached_txid = Some(Reverse(sha256d(r.v)))],
          ok |-> TRUE, v |-> Some(Reverse(sha256d(r.v))), err |-> "none"]

\* Transaction.txid of a PartialTransaction: [p, ok, v, err]; v the optional txid
p_txid(h, p) ==
    IF IsSome(p.cached_txid) THEN [p |-> p, ok |-> TRUE, v |-> p.cached_txid, err |-> "none"]
    ELSE IF ~is_complete(h, p) THEN [p |-> p, ok |-> TRUE, v |-> None, err |-> "none"]
    ELSE p_txid_r(p, p_serialize_to_network(h, p, FALSE, TRUE))

\* p_network_serialize, given r
p_network_serialize_r(p, r) ==
    IF r.ok THEN [p |-> [p EXCEPT !.cached_network_ser = Some(r.v)],
                  ok |-> TRUE, v |-> r.v, err |-> "none"]
    ELSE [p |-> p, ok |-> FALSE, v |-> <<>>, err |-> r.err]

\* Transaction.serialize applied to a PartialTransaction: [p, ok, v, err]
p_network_serialize(h, p) ==
    IF ~Truthy(p.cached_network_ser)
    THEN p_network_serialize_r(p, p_serialize_to_network(h, p, FALSE, TRUE))
    ELSE [p |-> p, ok |-> TRUE, v |-> Val(p.cached_network_ser), err |-> "none"]

----------------------------------------------------------------------------
(* PSBT sections: writer *)

PSBT_MAGIC == <<112, 115, 98, 116, 255>>

PSBT_GLOBAL_UNSIGNED_TX == 0
PSBT_GLOBAL_XPUB == 1
PSBT_GLOBAL_VERSION == 251
PSBT_IN_NON_WITNESS_UTXO == 0
PSBT_IN_PARTIAL_SIG == 2
PSBT_IN_SIGHASH_TYPE == 3
PSBT_IN_REDEEM_SCRIPT == 4
PSBT_IN_BIP32_DERIVATION == 6
PSBT_IN_FINAL_SCRIPTSIG == 7
PSBT_OUT_REDEEM_SCRIPT == 0
PSBT_OUT_BIP32_DERIVATION == 2

\* a < b on byte strings, as Python orders bytes
RECURSIVE LexLess(_, _)
LexLess(a, b) ==
    IF b = <<>> THEN FALSE
    ELSE IF a = <<>> THEN TRUE
    ELSE IF a[1] # b[1] THEN a[1] < b[1]
    ELSE LexLess(Tail(a), Tail(b))

\* sorted(keys)
RECURSIVE Sorted(_)
Sorted(S) ==
    IF S = {} THEN <<>>
    ELSE LET m == CHOOSE x \in S : \A y \in S : x = y \/ LexLess(x, y)
         IN <<m>> \o Sorted(S \ {m})

\* PSBTSection.get_fullkey_from_keytype_and_key
get_fullkey_from_keytype_and_key(key_type, key) == var_int(key_type) \o key

\* deser_compact_size on the bytes of a full key: the key type, None when empty
\* (a short multi-byte form raises struct.error)
deser_compact_size_of(b) ==
    IF b = <<>> THEN [v |-> None, used |-> 0, err |-> "none"]
    ELSE LET w == CASE b[1] = 253 -> 2 [] b[1] = 254 -> 4 [] b[1] = 255 -> 8 [] OTHER -> 0
         IN IF w = 0 THEN [v |-> Some(b[1]), used |-> 1, err |-> "none"]
            ELSE IF Len(b) < 1 + w THEN [v |-> None, used |-> Len(b), err |-> "struct.error"]
            ELSE [v |-> Some(UnsignedLE(SubSeq(b, 2, IF w = 2 THEN 3 ELSE 5))
                             + (IF w = 8 /\ ~AllBytes(b, 6, 9, 0) THEN 2147483647 * 2 ELSE 0)),
                  used |-> 1 + w, err |-> "none"]

\* get_keytype_and_key_from_fullkey, given r
get_keytype_and_key_from_fullkey_r(full_key, r) ==
    IF r.err # "none" THEN [key_type |-> 0, key |-> <<>>, err |-> r.err]
    ELSE IF IsNone(r.v) THEN [key_type |-> 0, key |-> <<>>, err |-> "UnexpectedEndOfStream"]
    ELSE [key_type |-> Val(r.v), key |-> SubSeq(full_key, r.used + 1, Len(full_key)),
          err |-> "none"]

\* PSBTSection.get_keytype_and_key_from_fullkey: [key_type, key, err]
get_keytype_and_key_from_fullkey(full_key) ==
    get_keytype_and_key_from_fullkey_r(full_key, deser_compact_size_of(full_key))

\* A section entry as the writer receives it
KV(key_type, key, val) == [key_type |-> key_type, key |-> key, val |-> val]

\* wr, given full_key
wr_full_key(e, full_key) ==
    var_int(Len(full_key)) \o full_key \o var_int(Len(e.val)) \o e.val

\* PSBTSection.create_psbt_writer: the bytes wr appends for one entry
wr(e) ==
    wr_full_key(e, get_fullkey_from_keytype_and_key(e.key_type, e.key))

\* the entries of an unknown-field bag, in the order they are written
unknown_kvs(unknown) ==
    LET ks == Sorted(DOMAIN unknown)
    IN List([i \in 1..Len(ks) |->
          KV(get_keytype_and_key_from_fullkey(ks[i]).key_type,
             get_keytype_and_key_from_fullkey(ks[i]).key, unknown[ks[i]])])

\* pack_bip32_root_fingerprint_and_int_path
pack_bip32_root_fingerprint_and_int_path(d) ==
    d.xfp \o Concat(List([i \in 1..Len(d.path) |-> int_to_hex(d.path[i], 4)]))

\* unpack_bip32_root_fingerprint_and_int_path (length a multiple of 4)
unpack_bip32_root_fingerprint_and_int_path(b) ==
    [xfp |-> SubSeq(b, 1, IF Len(b) < 4 THEN Len(b) ELSE 4),
     path |-> List([i \in 1..((Len(b) \div 4) - 1) |-> UnsignedLE(SubSeq(b, 4 * i + 1, 4 * i + 4))])]

bip32_kvs(key_type, paths) ==
    LET ks == Sorted(DOMAIN paths)
    IN List([i \in 1..Len(ks) |->
          KV(key_type, ks[i], pack_bip32_root_fingerprint_and_int_path(paths[ks[i]]))])

OptKV(cond, e) == IF cond THEN <<e>> ELSE <<>>

\* PartialTxInput.serialize_psbt_section_kvs (the utxo of an input is a
\* parsed Transaction, whose serialization does not raise)
txin_serialize_psbt_section_kvs(txin) ==
    LET pks == Sorted(DOMAIN txin.part_sigs)
    IN OptKV(IsSome(txin.utxo),
             KV(PSBT_IN_NON_WITNESS_UTXO, <<>>,
                IF IsSome(txin.utxo) THEN serialize_to_network(Val(txin.utxo), FALSE, TRUE).v
                ELSE <<>>))
       \o List([i \in 1..Len(pks) |-> KV(PSBT_IN_PARTIAL_SIG, pks[i], txin.part_sigs[pks[i]])])
       \o OptKV(IsSome(txin.sighash),
                KV(PSBT_IN_SIGHASH_TYPE, <<>>,
                   int_to_hex(IF IsSome(txin.sighash) THEN Val(txin.sighash) ELSE 0, 4)))
       \o OptKV(IsSome(txin.redeem_script),
                KV(PSBT_IN_REDEEM_SCRIPT, <<>>, BlobOrEmpty(txin.redeem_script)))
       \o bip32_kvs(PSBT_IN_BIP32_DERIVATION, txin.bip32_paths)
       \o OptKV(IsSome(txin.script_sig),
                KV(PSBT_IN_FINAL_SCRIPTSIG, <<>>, BlobOrEmpty(txin.script_sig)))
       \o unknown_kvs(txin.unknown)

\* PartialTxOutput.serialize_psbt_section_kvs
txout_serialize_psbt_section_kvs(txout) ==
    OptKV(IsSome(txout.redeem_script),
          KV(PSBT_OUT_REDEEM_SCRIPT, <<>>, BlobOrEmpty(txout.redeem_script)))
    \o bip32_kvs(PSBT_OUT_BIP32_DERIVATION, txout.bip32_paths)
    \o unknown_kvs(txout.unknown)

\* the global section of PartialTransaction._serialize_psbt
global_psbt_section_kvs(h, p) ==
    <<KV(PSBT_GLOBAL_UNSIGNED_TX, <<>>, p_serialize_to_network(h, p, FALSE, FALSE).v)>>
    \o bip32_kvs(PSBT_GLOBAL_XPUB, p.xpubs)
    \o unknown_kvs(p.unknown)

\* PSBTSection._serialize_psbt_section
serialize_psbt_section(kvs) == Concat(List([i \in 1..Len(kvs) |-> wr(kvs[i])])) \o <<0>>

\* PartialTransaction._serialize_psbt
serialize_psbt(h, p) ==
    PSBT_MAGIC
    \o serialize_psbt_section(global_psbt_section_kvs(h, p))
    \o Concat(List([i \in 1..Len(Val(p.inputs)) |->
                  serialize_psbt_section(txin_serialize_psbt_section_kvs(Ins(h, p)[i]))]))
    \o Concat(List([j \in 1..Len(Val(p.outputs)) |->
                  serialize_psbt_section(txout_serialize_psbt_section_kvs(Outs(h, p)[j]))]))

----------------------------------------------------------------------------
(* Text: a Python str or bytes value is [kind, v] with kind "str" or        *)
(* "bytes" and v its character codes or byte values.                        *)

Text(kind, v) == [kind |-> kind, v |-> v]

HexChar(n) == IF n < 10 THEN 48 + n ELSE 87 + n

HexVal(c) ==
    IF c \in 48..57 THEN c - 48
    ELSE IF c \in 97..102 THEN c - 87
    ELSE IF c \in 65..70 THEN c - 55 ELSE -1

\* bh2u / bytes.hex
bh2u(b) == List([i \in 1..(2 * Len(b)) |->
              HexChar(IF i % 2 = 1 THEN b[(i + 1) \div 2] \div 16 ELSE b[i \div 2] % 16)])

IsHexText(t) == Len(t) % 2 = 0 /\ \A i \in 1..Len(t) : HexVal(t[i]) >= 0

\* bfh / binascii.unhexlify on hex digits
bfh(t) == List([i \in 1..(Len(t) \div 2) |-> 16 * HexVal(t[2 * i - 1]) + HexVal(t[2 * i])])

B64Char(n) ==
    IF n < 26 THEN 65 + n
    ELSE IF n < 52 THEN 71 + n
    ELSE IF n < 62 THEN n - 4
    ELSE IF n = 62 THEN 43 ELSE IF n = 63 THEN 47 ELSE 61

B64Val(c) ==
    IF c \in 65..90 THEN c - 65
    ELSE IF c \in 97..122 THEN c - 71
    ELSE IF c \in 48..57 THEN c + 4
    ELSE IF c = 43 THEN 62 ELSE IF c = 47 THEN 63 ELSE -1

b64_group(b) ==
    LET n == Len(b)
        b1 == b[1]
        b2 == IF n >= 2 THEN b[2] ELSE 0
        b3 == IF n >= 3 THEN b[3] ELSE 0
    IN <<B64Char(b1 \div 4),
         B64Char((b1 % 4) * 16 + b2 \div 16),
         B64Char(IF n >= 2 THEN (b2 % 16) * 4 + b3 \div 64 ELSE 64),
         B64Char(IF n >= 3 THEN b3 % 64 ELSE 64)>>

\* base64.b64encode
b64encode(b) ==
    Concat(List([g \in 1..((Len(b) + 2) \div 3) |->
               b64_group(SubSeq(b, 3 * g - 2, IF 3 * g <= Len(b) THEN 3 * g ELSE Len(b)))]))

\* the value of character k of group g of the base64 data, 0 past its end
B64Quad(data, g, k) ==
    IF 4 * (g - 1) + k <= Len(data) THEN B64Val(data[4 * (g - 1) + k]) ELSE 0

\* B64Group, given full
B64Group_full(have, full) ==
    SubSeq(full, 1, have - 1)

\* the bytes that group g of the base64 data stands for
B64Group(data, g) ==
    LET n == Len(data)
        have == IF 4 * g <= n THEN 4 ELSE n - 4 * (g - 1)
    IN  B64Group_full(have,
            <<B64Quad(data, g, 1) * 4 + B64Quad(data, g, 2) \div 16,
              (B64Quad(data, g, 2) % 16) * 16 + B64Quad(data, g, 3) \div 4,
              (B64Quad(data, g, 3) % 4) * 64 + B64Quad(data, g, 4)>>)

\* b64decode, given n
b64decode_n(npad, data, n) ==
    IF n % 4 = 1 \/ npad < (4 - (n % 4)) % 4
    THEN [ok |-> FALSE, v |-> <<>>]
    ELSE [ok |-> TRUE, v |-> Concat(List([g \in 1..((n + 3) \div 4) |-> B64Group(data, g)]))]

\* b64decode, given data
b64decode_data(npad, data) ==
    b64decode_n(npad, data, Len(data))

\* b64decode, given first_pad
b64decode_first_pad(keep, npad, first_pad) ==
    b64decode_data(npad, SubSeq(keep, 1, first_pad - 1))

\* base64.b64decode (not validating): characters outside the alphabet are
\* dropped, decoding stops at the padding: [ok, v]
b64decode(t) ==
    LET keep == SelectSeq(t, LAMBDA c : B64Val(c) >= 0 \/ c = 61)
        npad == Cardinality({i \in 1..Len(keep) : keep[i] = 61})
    IN  b64decode_first_pad(keep, npad,
            IF npad = 0 THEN Len(keep) + 1
            ELSE CHOOSE i \in 1..Len(keep) :
                   keep[i] = 61 /\ \A k \in 1..(i - 1) : keep[k] # 61)

----------------------------------------------------------------------------
(* PartialTransaction.serialize / serialize_as_bytes: [h, p, ok, v, err]    *)

Ret(h, p, ok, v, err) == [h |-> h, p |-> p, ok |-> ok, v |-> v, err |-> err]

\* p_serialize_as_bytes, given r
p_serialize_as_bytes_r(f, r) ==
    Ret(f.h, r.p, r.ok, Text(IF r.ok THEN "bytes" ELSE "none", r.v), r.err)

\* p_serialize_as_bytes, given f
p_serialize_as_bytes_f(p, force_psbt, f) ==
    IF f.err # "none" THEN Ret(f.h, p, FALSE, Text("none", <<>>), f.err)
    ELSE IF force_psbt \/ ~is_complete(f.h, p)
    THEN Ret(f.h, p, TRUE, Text("bytes", serialize_psbt(f.h, p)), "none")
    ELSE p_serialize_as_bytes_r(f, p_network_serialize(f.h, p))

\* PartialTransaction.serialize_as_bytes(force_psbt)
p_serialize_as_bytes(h, p, force_psbt) ==
    p_serialize_as_bytes_f(p, force_psbt, finalize_psbt(h, p))

\* p_serialize, given r
p_serialize_r(f, r) ==
    Ret(f.h, r.p, r.ok, Text(IF r.ok THEN "str" ELSE "none", bh2u(r.v)), r.err)

\* p_serialize, given r
p_serialize_r2(r) ==
    Ret(r.h, r.p, r.ok,
        Text(IF r.ok THEN "str" ELSE "none",
             IF r.ok THEN b64encode(r.v.v) ELSE <<>>), r.err)

\* p_serialize, given f
p_serialize_f(p, f) ==
    IF f.err # "none" THEN Ret(f.h, p, FALSE, Text("none", <<>>), f.err)
    ELSE IF is_complete(f.h, p)
    THEN p_serialize_r(f, p_network_serialize(f.h, p))
    ELSE p_serialize_r2(p_serialize_as_bytes(f.h, p, FALSE))

\* PartialTransaction.serialize
p_serialize(h, p) ==
    p_serialize_f(p, finalize_psbt(h, p))

----------------------------------------------------------------------------
(* PSBT sections: reader.  fd is the pair (buf, pos) of an io.BytesIO,      *)
(* whose read returns fewer bytes at the end instead of failing.            *)

fd_read(buf, pos, n) ==
    SubSeq(buf, pos + 1, IF pos + n < Len(buf) THEN pos + n ELSE Len(buf))

\* get_next_kv_from_fd raising e with the stream at position q
kv_raise(e, q) == [kind |-> "err", e |-> KV(0, <<>>, <<>>), pos |-> q, err |-> e]

\* get_next_kv_from_fd, given k and vs
get_next_kv_from_fd_k(buf, p2, k, vs) ==
    IF k.err # "none" THEN kv_raise(k.err, p2)
    ELSE IF vs.err # "none" THEN kv_raise(vs.err, p2 + vs.used)
    ELSE IF IsNone(vs.v) THEN kv_raise("UnexpectedEndOfStream", p2)
    ELSE LET val == fd_read(buf, p2 + vs.used, Val(vs.v))
         IN [kind |-> "kv", e |-> KV(k.key_type, k.key, val),
             pos |-> p2 + vs.used + Len(val), err |-> "none"]

\* get_next_kv_from_fd, given ks
get_next_kv_from_fd_ks(buf, pos, ks) ==
    IF ks.err # "none" THEN kv_raise(ks.err, pos + ks.used)
    ELSE IF IsNone(ks.v) THEN kv_raise("UnexpectedEndOfStream", pos)
    ELSE IF Val(ks.v) = 0
    THEN [kind |-> "stop", e |-> KV(0, <<>>, <<>>), pos |-> pos + 1, err |-> "none"]
    ELSE
    LET p1 == pos + ks.used
        full_key == fd_read(buf, p1, Val(ks.v))
        p2 == p1 + Len(full_key)
    IN  get_next_kv_from_fd_k(buf, p2,
            get_keytype_and_key_from_fullkey(full_key),
            deser_compact_size_of(fd_read(buf, p2, 9)))

\* PSBTSection.get_next_kv_from_fd: kind "kv", "stop" (StopIteration) or "err"
get_next_kv_from_fd(buf, pos) ==
    get_next_kv_from_fd_ks(buf, pos, deser_compact_size_of(fd_read(buf, pos, 9)))

RECURSIVE read_section(_, _, _)
\* read_section, given r
read_section_r(buf, kvs, r) ==
    IF r.kind = "kv" THEN read_section(buf, r.pos, Append(kvs, r.e))
    ELSE [kvs |-> kvs, pos |-> r.pos, err |-> r.err]

\* The entries of one section up to its separator, or up to the entry whose
\* reading raises: [kvs, pos, err]
read_section(buf, pos, kvs) ==
    read_section_r(buf, kvs, get_next_kv_from_fd(buf, pos))

KeyLenOk(key) == Len(key) \in {33, 65}

\* results of parse_psbt_section_kv: the section t read so far, and no error,
\* a SerializationError, or a SerializationError when the entry has key data
parsed(t) == [txin |-> t, err |-> "none"]
duplicate(t) == [txin |-> t, err |-> "SerializationError"]
key_not_empty(e, t) == IF e.key # <<>> THEN duplicate(t) ELSE parsed(t)

\* txin_parse_psbt_section_kv, given u
txin_parse_psbt_section_kv_u(e, u) ==
    IF u.err # "none" THEN u ELSE key_not_empty(e, u.txin)

\* txin_parse_psbt_section_kv, given full_key
txin_parse_psbt_section_kv_full_key(txin, e, full_key) ==
    IF full_key \in DOMAIN txin.unknown THEN duplicate(txin)
    ELSE parsed([txin EXCEPT !.unknown = Update(@, [k \in {full_key} |-> e.val])])

\* PartialTxInput.parse_psbt_section_kv: [txin, err] (a utxo whose bytes
\* start with the PSBT magic is not followed further)
txin_parse_psbt_section_kv(txin, e) ==
    CASE e.key_type = PSBT_IN_NON_WITNESS_UTXO ->
              IF IsSome(txin.utxo) THEN duplicate(txin)
              ELSE IF Len(e.val) >= 5 /\ SubSeq(e.val, 1, 5) = PSBT_MAGIC
              THEN [txin |-> txin, err |-> "NestedPSBT"]
              ELSE txin_parse_psbt_section_kv_u(e, set_utxo(txin, Transaction(Some(e.val))))
         [] e.key_type = PSBT_IN_PARTIAL_SIG ->
              IF e.key \in DOMAIN txin.part_sigs \/ ~KeyLenOk(e.key) THEN duplicate(txin)
              ELSE parsed([txin EXCEPT !.part_sigs = Update(@, [k \in {e.key} |-> e.val])])
         [] e.key_type = PSBT_IN_SIGHASH_TYPE ->
              IF IsSome(txin.sighash) \/ Len(e.val) # 4 THEN duplicate(txin)
              ELSE key_not_empty(e, [txin EXCEPT !.sighash = Some(UnsignedLE(e.val))])
         [] e.key_type = PSBT_IN_BIP32_DERIVATION ->
              IF e.key \in DOMAIN txin.bip32_paths \/ ~KeyLenOk(e.key) THEN duplicate(txin)
              ELSE IF Len(e.val) % 4 # 0 THEN [txin |-> txin, err |-> "Exception"]
              ELSE parsed([txin EXCEPT !.bip32_paths =
                          Update(@, [k \in {e.key} |->
                                       unpack_bip32_root_fingerprint_and_int_path(e.val)])])
         [] e.key_type = PSBT_IN_REDEEM_SCRIPT ->
              IF IsSome(txin.redeem_script) THEN duplicate(txin)
              ELSE key_not_empty(e, [txin EXCEPT !.redeem_script = Some(e.val)])
         [] e.key_type = PSBT_IN_FINAL_SCRIPTSIG ->
              IF IsSome(txin.script_sig) THEN duplicate(txin)
              ELSE key_not_empty(e, [txin EXCEPT !.script_sig = Some(e.val)])
         [] OTHER ->
              txin_parse_psbt_section_kv_full_key(txin, e,
                  get_fullkey_from_keytype_and_key(e.key_type, e.key))

\* txout_parse_psbt_section_kv, given full_key
txout_parse_psbt_section_kv_full_key(txout, e, full_key) ==
    IF full_key \in DOMAIN txout.unknown THEN duplicate(txout)
    ELSE parsed([txout EXCEPT !.unknown = Update(@, [k \in {full_key} |-> e.val])])

\* PartialTxOutput.parse_psbt_section_kv: [txin, err] with txin the output
txout_parse_psbt_section_kv(txout, e) ==
    CASE e.key_type = PSBT_OUT_REDEEM_SCRIPT ->
              IF IsSome(txout.redeem_script) THEN duplicate(txout)
              ELSE IF e.key # <<>> THEN duplicate(txout)
              ELSE parsed([txout EXCEPT !.redeem_script = Some(e.val)])
         [] e.key_type = PSBT_OUT_BIP32_DERIVATION ->
              IF e.key \in DOMAIN txout.bip32_paths \/ ~KeyLenOk(e.key) THEN duplicate(txout)
              ELSE IF Len(e.val) % 4 # 0 THEN [txin |-> txout, err |-> "Exception"]
              ELSE parsed([txout EXCEPT !.bip32_paths =
                          Update(@, [k \in {e.key} |->
                                       unpack_bip32_root_fingerprint_and_int_path(e.val)])])
         [] OTHER ->
              txout_parse_psbt_section_kv_full_key(txout, e,
                  get_fullkey_from_keytype_and_key(e.key_type, e.key))

RECURSIVE populate_psbt_fields_from_fd(_, _, _, _)
\* populate_psbt_fields_from_fd, given q
populate_psbt_fields_from_fd_q(buf, is_input, r, q) ==
    IF q.err # "none" THEN [txin |-> q.txin, pos |-> r.pos, err |-> q.err]
    ELSE populate_psbt_fields_from_fd(q.txin, buf, r.pos, is_input)

\* populate_psbt_fields_from_fd, given r
populate_psbt_fields_from_fd_r(sect, buf, is_input, r) ==
    IF r.kind # "kv" THEN [txin |-> sect, pos |-> r.pos, err |-> r.err]
    ELSE populate_psbt_fields_from_fd_q(buf, is_input, r,
             IF is_input THEN txin_parse_psbt_section_kv(sect, r.e)
             ELSE txout_parse_psbt_section_kv(sect, r.e))

\* PSBTSection._populate_psbt_fields_from_fd: [txin, pos, err]
populate_psbt_fields_from_fd(sect, buf, pos, is_input) ==
    populate_psbt_fields_from_fd_r(sect, buf, is_input, get_next_kv_from_fd(buf, pos))

RECURSIVE populate_all(_, _, _, _, _)
\* populate_all, given r
populate_all_r(secs, k, buf, n_in, r) ==
    IF r.err # "none" THEN [secs |-> secs, pos |-> r.pos, err |-> r.err]
    ELSE populate_all([secs EXCEPT ![k] = r.txin], k + 1, buf, r.pos, n_in)

\* the input, then the output sections: [secs, pos, err]
populate_all(secs, k, buf, pos, n_in) ==
    IF k > Len(secs) THEN [secs |-> secs, pos |-> pos, err |-> "none"]
    ELSE populate_all_r(secs, k, buf, n_in,
             populate_psbt_fields_from_fd(secs[k], buf, pos, k <= n_in))

----------------------------------------------------------------------------
(* Constructors from other representations *)

\* PartialTransaction.from_tx, given the fields, inputs and outputs of tx:
\* the new input objects are appended to the heap
from_tx_of(h, tx, ins, outs) ==
    [h |-> h \o List([i \in 1..Len(ins) |-> from_txin(ins[i])])
             \o List([j \in 1..Len(outs) |-> from_txout(outs[j])]),
     p |-> [PartialTransaction EXCEPT
              !.inputs = Some(List([i \in 1..Len(ins) |-> Len(h) + i])),
              !.outputs = Some(List([j \in 1..Len(outs) |-> Len(h) + Len(ins) + j])),
              !.version = tx.version, !.locktime = tx.locktime,
              !.overwintered = tx.overwintered, !.versionGroupId = tx.versionGroupId,
              !.expiryHeight = tx.expiryHeight, !.valueBalance = tx.valueBalance,
              !.shieldedSpends = tx.shieldedSpends, !.shieldedOutputs = tx.shieldedOutputs,
              !.joinSplits = tx.joinSplits, !.joinSplitPubKey = tx.joinSplitPubKey,
              !.joinSplitSig = tx.joinSplitSig, !.bindingSig = tx.bindingSig]]

\* from_tx, given r
from_tx_r(r) ==
    [h |-> r.h, p |-> r.p, err |-> "none"]

\* from_tx, given d
from_tx_d(h, d) ==
    IF d.err # "none" \/ IsNone(d.tx.inputs)
    THEN [h |-> h, p |-> PartialTransaction,
          err |-> IF d.err # "none" THEN d.err ELSE "TypeError"]
    ELSE from_tx_r(from_tx_of(h, d.tx, Val(d.tx.inputs), Val(d.tx.outputs)))

\* PartialTransaction.from_tx(tx) for a Transaction: [h, p, err]
from_tx(h, tx) ==
    from_tx_d(h, deserialize(tx))

RECURSIVE first_pass(_, _, _)
\* first_pass, given d
first_pass_d(kvs, k, tx, d) ==
    IF d.err # "none" THEN [tx |-> tx, err |-> d.err]
    ELSE IF \E i \in 1..Len(Val(d.tx.inputs)) : Truthy(Val(d.tx.inputs)[i].script_sig)
    THEN [tx |-> tx, err |-> "SerializationError"]
    ELSE first_pass(kvs, k + 1, Some(d.tx))

\* first parsing pass of from_raw_psbt over the global section: [tx, err],
\* tx the optional deserialized unsigned transaction
first_pass(kvs, k, tx) ==
    IF k > Len(kvs) THEN [tx |-> tx, err |-> "none"]
    ELSE IF kvs[k].key_type # PSBT_GLOBAL_UNSIGNED_TX THEN first_pass(kvs, k + 1, tx)
    ELSE IF IsSome(tx) \/ kvs[k].key # <<>> THEN [tx |-> tx, err |-> "SerializationError"]
    ELSE IF kvs[k].val = <<>> THEN [tx |-> tx, err |-> "AssertionError"]
    ELSE first_pass_d(kvs, k, tx, deserialize(Transaction(Some(kvs[k].val))))

RECURSIVE second_pass(_, _, _)
\* second_pass, given full_key
second_pass_full_key(kvs, k, p, e, bad, full_key) ==
    IF full_key \in DOMAIN p.unknown THEN bad
    ELSE second_pass(kvs, k + 1,
                     [p EXCEPT !.unknown = Update(@, [x \in {full_key} |-> e.val])])

\* second parsing pass over the global section: [p, err]
second_pass(kvs, k, p) ==
    IF k > Len(kvs) THEN [p |-> p, err |-> "none"]
    ELSE
    LET e == kvs[k]
        bad == [p |-> p, err |-> "SerializationError"]
    IN CASE e.key_type = PSBT_GLOBAL_UNSIGNED_TX -> second_pass(kvs, k + 1, p)
         [] e.key_type = PSBT_GLOBAL_XPUB ->
              LET d == unpack_bip32_root_fingerprint_and_int_path(e.val)
                  depth == e.key[5]
                  child == UnsignedLE(Reverse(SubSeq(e.key, 10, 13)))
              IN IF Len(e.key) # 78 THEN [p |-> p, err |-> "Exception"]
                 ELSE IF e.key \in DOMAIN p.xpubs THEN bad
                 ELSE IF Len(e.val) % 4 # 0 \/ Len(e.val) = 0 THEN [p |-> p, err |-> "Exception"]
                 ELSE IF depth # Len(d.path) THEN bad
                 ELSE IF ~((depth = 0 /\ child = 0)
                           \/ (depth # 0 /\ child = d.path[Len(d.path)])) THEN bad
                 ELSE second_pass(kvs, k + 1,
                                  [p EXCEPT !.xpubs = Update(@, [x \in {e.key} |-> d])])
         [] e.key_type = PSBT_GLOBAL_VERSION ->
              IF Len(e.val) > 4 \/ ~AllBytes(e.val, 1, Len(e.val), 0) \/ e.key # <<>> THEN bad
              ELSE second_pass(kvs, k + 1, p)
         [] OTHER ->
              second_pass_full_key(kvs, k, p, e, bad,
                  get_fullkey_from_keytype_and_key(e.key_type, e.key))

Lower(t) == List([i \in 1..Len(t) |-> IF t[i] \in 65..90 THEN t[i] + 32 ELSE t[i]])

Prefix(t, n) == SubSeq(t, 1, IF n < Len(t) THEN n ELSE Len(t))

\* from_raw_psbt raising e: no object is made
psbt_raise(h, e) == [ok |-> FALSE, h |-> h, p |-> PartialTransaction, err |-> e]

\* from_raw_psbt, given bad_in
from_raw_psbt_bad_in(h, body, f2, a, bad_in) ==
    IF f2.err # "none" THEN psbt_raise(h, f2.err)
    ELSE IF a.err # "none" THEN psbt_raise(h, a.err)
    ELSE IF a.pos < Len(body) THEN psbt_raise(h, "SerializationError")
    ELSE IF bad_in # {} THEN psbt_raise(h, "PSBTInputConsistencyFailure")
    ELSE [ok |-> TRUE,
          h |-> h \o a.secs, p |-> f2.p,
          err |-> "none"]

\* from_raw_psbt, given a
from_raw_psbt_a(h, body, f2, n_in, a) ==
    from_raw_psbt_bad_in(h, body, f2, a, {i \in 1..n_in : validate_data(a.secs[i]) # "none"})

\* from_raw_psbt, given f2 and n_in and secs
from_raw_psbt_f2(h, body, g, f2, n_in, secs) ==
    from_raw_psbt_a(h, body, f2, n_in, populate_all(secs, 1, body, g.pos, n_in))

\* from_raw_psbt, given t0
from_raw_psbt_t0(h, body, g, t0) ==
    from_raw_psbt_f2(h, body, g,
        second_pass(g.kvs, 1, t0.p),
        Len(Val(t0.p.inputs)),
        SubSeq(t0.h, Len(h) + 1, Len(t0.h)))

\* from_raw_psbt, given f1
from_raw_psbt_f1(h, body, g, f1) ==
    IF f1.err # "none" THEN psbt_raise(h, f1.err)
    ELSE IF g.err # "none" THEN psbt_raise(h, g.err)
    ELSE IF IsNone(f1.tx) THEN psbt_raise(h, "SerializationError")
    ELSE
    LET utx == Val(f1.tx)
    IN  from_raw_psbt_t0(h, body, g, from_tx_of(h, utx, Val(utx.inputs), Val(utx.outputs)))

\* from_raw_psbt, given g
from_raw_psbt_g(h, body, g) ==
    from_raw_psbt_f1(h, body, g, first_pass(g.kvs, 1, None))

\* from_raw_psbt, given buf
from_raw_psbt_buf(h, raw, is_hex, is_b64, dec, buf) ==
    IF is_hex /\ raw.kind = "bytes" THEN psbt_raise(h, "TypeError")
    ELSE IF is_hex /\ ~IsHexText(raw.v) THEN psbt_raise(h, "ValueError")
    ELSE IF ~dec.ok THEN psbt_raise(h, "binascii.Error")
    ELSE IF (~is_hex /\ ~is_b64 /\ raw.kind # "bytes") \/ Prefix(buf, 5) # PSBT_MAGIC
    THEN psbt_raise(h, "BadHeaderMagic")
    ELSE
    LET body == SubSeq(buf, 6, Len(buf))
    IN  from_raw_psbt_g(h, body, read_section(body, 0, <<>>))

\* from_raw_psbt, given dec
from_raw_psbt_dec(h, raw, is_hex, is_b64, dec) ==
    from_raw_psbt_buf(h, raw, is_hex, is_b64, dec,
        IF is_hex THEN bfh(raw.v) ELSE IF is_b64 THEN dec.v ELSE raw.v)

\* PartialTransaction.from_raw_psbt(raw): [ok, h, p, err]
from_raw_psbt(h, raw) ==
    LET is_hex == Lower(Prefix(raw.v, 10)) = bh2u(PSBT_MAGIC)
        is_b64 == ~is_hex /\ Prefix(raw.v, 6) = <<99, 72, 78, 105, 100, 80>>
    IN  from_raw_psbt_dec(h, raw, is_hex, is_b64,
            IF is_b64 THEN b64decode(raw.v) ELSE [ok |-> TRUE, v |-> <<>>])

IsSpace(c) == c \in {9, 10, 11, 12, 13, 32}

RECURSIVE strip(_)
strip(t) ==
    IF t = <<>> THEN t
    ELSE IF IsSpace(t[1]) THEN strip(Tail(t))
    ELSE IF IsSpace(t[Len(t)]) THEN strip(SubSeq(t, 1, Len(t) - 1))
    ELSE t

\* the digit of a character in the base43 alphabet, -1 when not in it
B43Val(c) ==
    IF c \in 48..57 THEN c - 48
    ELSE IF c \in 65..90 THEN c - 55
    ELSE IF c = 36 THEN 36 ELSE IF c = 42 THEN 37 ELSE IF c = 43 THEN 38
    ELSE IF c = 45 THEN 39 ELSE IF c = 46 THEN 40 ELSE IF c = 47 THEN 41
    ELSE IF c = 58 THEN 42 ELSE -1

\* little-endian bytes of 43 * (value of le) + carry
RECURSIVE MulAdd43(_, _)
MulAdd43(le, carry) ==
    IF le = <<>> THEN (IF carry = 0 THEN <<>> ELSE <<carry % 256>> \o MulAdd43(<<>>, carry \div 256))
    ELSE <<(43 * le[1] + carry) % 256>> \o MulAdd43(Tail(le), (43 * le[1] + carry) \div 256)

RECURSIVE B43Value(_, _, _)
B43Value(t, k, le) ==
    IF k > Len(t) THEN le ELSE B43Value(t, k + 1, MulAdd43(le, B43Val(t[k])))

\* base43_decode, given body
base43_decode_body(t, body) ==
    LET lead == {i \in 1..Len(t) : \A k \in 1..i : t[k] = 48}
    IN  Bytes(Cardinality(lead), 0) \o Reverse(body)

\* base_decode(v, base=43) on text whose characters are all in the alphabet
base43_decode(t) ==
    LET le == B43Value(t, 1, <<>>)
    IN  base43_decode_body(t, IF le = <<>> THEN <<0>> ELSE le)

\* convert_raw_tx_to_hex, given dec
convert_raw_tx_to_hex_dec(raw, t, dec) ==
    IF raw.v = <<>> THEN [ok |-> FALSE, v |-> <<>>, err |-> "ValueError"]
    ELSE IF IsHexText(t) THEN [ok |-> TRUE, v |-> bfh(t), err |-> "none"]
    ELSE IF \A i \in 1..Len(t) : B43Val(t[i]) >= 0
    THEN [ok |-> TRUE, v |-> base43_decode(t), err |-> "none"]
    ELSE IF Prefix(t, 6) = <<99, 72, 78, 105, 100, 80>> /\ dec.ok
    THEN [ok |-> TRUE, v |-> dec.v, err |-> "none"]
    ELSE IF raw.kind = "bytes" THEN [ok |-> TRUE, v |-> raw.v, err |-> "none"]
    ELSE [ok |-> FALSE, v |-> <<>>, err |-> "ValueError"]

\* convert_raw_tx_to_hex(raw): [ok, v, err], v the bytes the hex stands for
convert_raw_tx_to_hex(raw) ==
    LET t == strip(raw.v)
    IN  convert_raw_tx_to_hex_dec(raw, t, b64decode(t))

\* a result of tx_from_any
any_result(ok, cls, hh, p, tx, err) ==
    [ok |-> ok, cls |-> cls, h |-> hh, p |-> p, tx |-> tx, err |-> err]

\* tx_from_any, given r and d
tx_from_any_r(h, c, r, d) ==
    IF ~c.ok THEN any_result(FALSE, "none", h, PartialTransaction, Transaction(None), c.err)
    ELSE IF r.ok THEN any_result(TRUE, "PartialTransaction", r.h, r.p, Transaction(None), "none")
    ELSE IF r.err # "BadHeaderMagic"
    THEN any_result(FALSE, "none", h, PartialTransaction, Transaction(None), r.err)
    ELSE IF Prefix(c.v, 5) = <<69, 80, 84, 70, 255>> \/ c.v = <<>> \/ d.err # "none"
    THEN any_result(FALSE, "none", h, PartialTransaction, Transaction(None), "SerializationError")
    ELSE any_result(TRUE, "Transaction", h, PartialTransaction, d.tx, "none")

\* tx_from_any, given c
tx_from_any_c(h, c) ==
    tx_from_any_r(h, c,
        from_raw_psbt(h, Text("str", bh2u(c.v))),
        deserialize(Transaction(Some(c.v))))

\* tx_from_any(raw): [ok, cls, h, p, tx, err]
tx_from_any(h, raw) ==
    tx_from_any_c(h, convert_raw_tx_to_hex(raw))

----------------------------------------------------------------------------
(* PartialTransaction: mutators.  Each returns [h, p, err]; on an error h  *)
(* and p hold whatever the method had already assigned when it raised.     *)

Res(h, p, err) == [h |-> h, p |-> p, err |-> err]

\* the sort key (prevout.txid, prevout.out_idx) of an input: a <= b
txin_key_le(a, b) ==
    IF a.prevout.txid # b.prevout.txid THEN LexLess(a.prevout.txid, b.prevout.txid)
    ELSE a.prevout.out_idx <= b.prevout.out_idx

\* the sort key (value, scriptpubkey) of an output: a <= b
txout_key_le(a, b) ==
    IF a.value # b.value THEN a.value < b.value
    ELSE a.scriptpubkey = b.scriptpubkey \/ LexLess(a.scriptpubkey, b.scriptpubkey)

\* the sort key of object a is at most that of object b
key_le(h, by_input, a, b) ==
    IF by_input THEN txin_key_le(h[a], h[b]) ELSE txout_key_le(h[a], h[b])

RECURSIVE stable_sort(_, _, _, _)
\* stable_sort, given at
stable_sort_at(h, ids, done, by_input, x, at) ==
    stable_sort(h, Tail(ids),
                SubSeq(done, 1, at) \o <<x>> \o SubSeq(done, at + 1, Len(done)),
                by_input)

\* list.sort on a list of references: a stable sort
stable_sort(h, ids, done, by_input) ==
    IF ids = <<>> THEN done
    ELSE LET x == ids[1]
         IN  stable_sort_at(h, ids, done, by_input, x,
                 IF \A k \in 1..Len(done) : key_le(h, by_input, done[k], x) THEN Len(done)
                 ELSE (CHOOSE k \in 1..Len(done) :
                          /\ ~key_le(h, by_input, done[k], x)
                          /\ \A m \in 1..(k - 1) : key_le(h, by_input, done[m], x)) - 1)

\* PartialTransaction.BIP69_sort(inputs, outputs)
BIP69_sort(h, p, inputs, outputs) ==
    invalidate_ser_cache(
        [p EXCEPT !.inputs = IF inputs THEN Some(stable_sort(h, Val(@), <<>>, TRUE)) ELSE @,
                  !.outputs = IF outputs THEN Some(stable_sort(h, Val(@), <<>>, FALSE)) ELSE @])

\* PartialTransaction.add_inputs(inputs): the given objects join the list
add_inputs(h, p, ids) ==
    invalidate_ser_cache(BIP69_sort(h, [p EXCEPT !.inputs = Some(Val(@) \o ids)], TRUE, FALSE))

\* PartialTransaction.add_outputs(outputs)
add_outputs(h, p, ids) ==
    invalidate_ser_cache(BIP69_sort(h, [p EXCEPT !.outputs = Some(Val(@) \o ids)], FALSE, TRUE))

\* PartialTransaction.add_signature_to_txin
add_signature_to_txin(h, p, txin_idx, signing_pubkey, sig) ==
    Res([h EXCEPT ![Val(p.inputs)[txin_idx]] =
            [@ EXCEPT !.part_sigs = Update(@, [k \in {signing_pubkey} |-> sig]),
                      !.script_sig = None]],
        invalidate_ser_cache(p), "none")

\* PartialTransaction.remove_signatures
\* a faulty variant of remove_signatures: the script_sig of the inputs is kept
remove_signatures_keeping_script_sig(h, p) ==
    LET ids == {Val(p.inputs)[i] : i \in 1..Len(Val(p.inputs))}
        h1 == List([x \in 1..Len(h) |->
                 IF x \in ids THEN [h[x] EXCEPT !.part_sigs = EmptyMap] ELSE h[x]])
    IN IF is_complete(h1, p) THEN Res(h1, p, "AssertionError")
       ELSE Res(h1, invalidate_ser_cache(p), "none")

remove_signatures(h, p) ==
    LET ids == {Val(p.inputs)[i] : i \in 1..Len(Val(p.inputs))}
        h1 == List([x \in 1..Len(h) |->
                 IF x \in ids THEN [h[x] EXCEPT !.part_sigs = EmptyMap, !.script_sig = None]
                 ELSE h[x]])
    IN IF is_complete(h1, p) THEN Res(h1, p, "AssertionError")
       ELSE Res(h1, invalidate_ser_cache(p), "none")

RECURSIVE combine_inputs(_, _, _, _)
\* combine_inputs, given h1
combine_inputs_h1(ids, other_ids, k, c, h1) ==
    IF c.err # "none" THEN [h |-> h1, err |-> c.err]
    ELSE combine_inputs(h1, ids, other_ids, k + 1)

\* combine_inputs, given c
combine_inputs_c(h, ids, other_ids, k, c) ==
    combine_inputs_h1(ids, other_ids, k, c, [h EXCEPT ![ids[k]] = c.txin])

\* the loops of combine_with_other_psbt over zip(inputs) and zip(outputs);
\* the other object is read when its turn comes
combine_inputs(h, ids, other_ids, k) ==
    IF k > Len(ids) \/ k > Len(other_ids) THEN [h |-> h, err |-> "none"]
    ELSE combine_inputs_c(h, ids, other_ids, k,
             combine_with_other_txin(h[ids[k]], h[other_ids[k]]))

RECURSIVE combine_outputs(_, _, _, _)
combine_outputs(h, ids, other_ids, k) ==
    IF k > Len(ids) \/ k > Len(other_ids) THEN h
    ELSE combine_outputs([h EXCEPT ![ids[k]] = combine_with_other_txout(@, h[other_ids[k]])],
                         ids, other_ids, k + 1)

\* combine_with_other_psbt, given ci
combine_with_other_psbt_ci(p, other_tx, p1, ci) ==
    IF ci.err # "none" THEN Res(ci.h, p1, ci.err)
    ELSE Res(combine_outputs(ci.h, Val(p.outputs), Val(other_tx.outputs), 1),
             invalidate_ser_cache(p1), "none")

\* PartialTransaction.combine_with_other_psbt(other_tx), other_tx a PartialTransaction
combine_with_other_psbt(h, p, other_tx) ==
    IF p_serialize_to_network(h, p, FALSE, FALSE).v
         # p_serialize_to_network(h, other_tx, FALSE, FALSE).v
    THEN Res(h, p, "Exception")
    ELSE LET p1 == [p EXCEPT !.xpubs = Update(@, other_tx.xpubs),
                             !.unknown = Update(@, other_tx.unknown)]
         IN  combine_with_other_psbt_ci(p, other_tx, p1,
                 combine_inputs(h, Val(p.inputs), Val(other_tx.inputs), 1))

\* join_with_other_psbt, given r
join_with_other_psbt_r(r) ==
    Res(r.h, IF r.err = "none" THEN invalidate_ser_cache(r.p) ELSE r.p, r.err)

\* join_with_other_psbt, given p2
join_with_other_psbt_p2(h, p2) ==
    join_with_other_psbt_r(remove_signatures(h, p2))

\* PartialTransaction.join_with_other_psbt(other_tx), other_tx a PartialTransaction
join_with_other_psbt(h, p, other_tx) ==
    LET chain == Ins(h, p) \o Ins(h, other_tx)
    IN IF \E i, j \in 1..Len(chain) : i < j /\ chain[i].prevout = chain[j].prevout
       THEN Res(h, p, "Exception")
       ELSE LET p1 == [p EXCEPT !.xpubs = Update(@, other_tx.xpubs),
                                !.unknown = Update(@, other_tx.unknown)]
            IN  join_with_other_psbt_p2(h,
                    add_outputs(h, add_inputs(h, p1, Val(other_tx.inputs)),
                                Val(other_tx.outputs)))

----------------------------------------------------------------------------
(* Signing *)

SIGHASH_ALL == 1

\* a faulty variant of get_preimage_script: for an input that holds
\* signatures the script is the scriptSig built from them
get_preimage_script_with_signatures(txin) ==
    IF txin.part_sigs # EmptyMap \/ IsSome(txin.script_sig) THEN input_script(txin, FALSE)
    ELSE IF Truthy(txin.redeem_script) THEN Ok(Val(txin.redeem_script))
    ELSE IF txin.script_type = "p2sh"
    THEN IF multisig_script_ok(txin.pubkeys, txin.num_sig)
         THEN Ok(multisig_script(txin.pubkeys, txin.num_sig)) ELSE Err("AssertionError")
    ELSE IF txin.script_type = "p2pkh"
    THEN IF txin.pubkeys = <<>> THEN Err("IndexError")
         ELSE Ok(p2pkh_script(hash_160(txin.pubkeys[1])))
    ELSE IF txin.script_type = "p2pk"
    THEN IF txin.pubkeys = <<>> THEN Err("IndexError") ELSE Ok(p2pk_script(txin.pubkeys[1]))
    ELSE Err("UnknownTxinType")

\* Transaction.get_preimage_script: [ok, v, err]
get_preimage_script(txin) ==
    IF Truthy(txin.redeem_script) THEN Ok(Val(txin.redeem_script))
    ELSE IF txin.script_type = "p2sh"
    THEN IF multisig_script_ok(txin.pubkeys, txin.num_sig)
         THEN Ok(multisig_script(txin.pubkeys, txin.num_sig)) ELSE Err("AssertionError")
    ELSE IF txin.script_type = "p2pkh"
    THEN IF txin.pubkeys = <<>> THEN Err("IndexError")
         ELSE Ok(p2pkh_script(hash_160(txin.pubkeys[1])))
    ELSE IF txin.script_type = "p2pk"
    THEN IF txin.pubkeys = <<>> THEN Err("IndexError") ELSE Ok(p2pk_script(txin.pubkeys[1]))
    ELSE Err("UnknownTxinType")

\* serialize_preimage, given nHashType and s_outputs
serialize_preimage_nHashType(p, txin_index, inputs, outputs, txin, ps, sighash, nLocktime, nHashType, s_outputs) ==
    IF ~ps.ok THEN ps
    ELSE IF sighash # SIGHASH_ALL THEN Err("Exception")
    ELSE IF p.overwintered
    THEN IF IsNone(value_sats(txin)) THEN Err("TypeError")
         ELSE Ok(overwintered_header(p.version) \o p.versionGroupId
                 \o blake2b(Concat(List([i \in 1..Len(inputs) |->
                                      outpoint_serialize_to_network(inputs[i].prevout)])), 1)
                 \o blake2b(Concat(List([i \in 1..Len(inputs) |-> inputs[i].nsequence])), 2)
                 \o blake2b(s_outputs, 3)
                 \o Bytes(32, 0) \o Bytes(32, 0) \o Bytes(32, 0)
                 \o nLocktime \o int_to_hex(p.expiryHeight, 4)
                 \o int_to_hex(p.valueBalance, 8) \o nHashType
                 \o outpoint_serialize_to_network(txin.prevout)
                 \o var_int(Len(ps.v)) \o ps.v
                 \o int_to_hex(Val(value_sats(txin)), 8)
                 \o txin.nsequence)
    ELSE Ok(int_to_hex(p.version, 4)
            \o var_int(Len(inputs))
            \o Concat(List([k \in 1..Len(inputs) |->
                         serialize_input(inputs[k], IF k = txin_index THEN ps.v ELSE <<>>)]))
            \o var_int(Len(outputs)) \o s_outputs
            \o nLocktime \o nHashType)

\* serialize_preimage, given ps
serialize_preimage_ps(p, txin_index, inputs, outputs, txin, ps) ==
    LET sighash == IF IsSome(txin.sighash) THEN Val(txin.sighash) ELSE SIGHASH_ALL
        nLocktime == int_to_hex(p.locktime, 4)
    IN  serialize_preimage_nHashType(p, txin_index, inputs, outputs, txin, ps, sighash, nLocktime,
            int_to_hex(sighash, 4),
            Concat(List([j \in 1..Len(outputs) |-> txout_serialize_to_network(outputs[j])])))

\* PartialTransaction.serialize_preimage(txin_index): [ok, v, err]
serialize_preimage(h, p, txin_index) ==
    LET inputs == Ins(h, p)
        outputs == Outs(h, p)
        txin == inputs[txin_index]
    IN  serialize_preimage_ps(p, txin_index, inputs, outputs, txin, get_preimage_script(txin))

\* pre_hash, given r
pre_hash_r(p, r) ==
    IF ~r.ok THEN r
    ELSE Ok(IF p.overwintered THEN blake2b(r.v, 4) ELSE sha256d(r.v))

\* the hash that is signed for an input: [ok, v, err]
pre_hash(h, p, txin_index) ==
    pre_hash_r(p, serialize_preimage(h, p, txin_index))

\* ECPrivkey.sign_transaction for the private key of pubkey, then SIGHASH_ALL
sign_transaction(pubkey, hash) == <<48, pubkey[2]>> \o SubSeq(hash, 1, 2) \o <<1>>

\* sign_txin, given v and ph
sign_txin_v(pubkey, v, ph) ==
    IF v # "none" THEN Err(v)
    ELSE IF ~ph.ok THEN ph
    ELSE Ok(sign_transaction(pubkey, ph.v))

\* PartialTransaction.sign_txin(txin_index, privkey): [ok, v, err]
sign_txin(h, p, txin_index, pubkey) ==
    sign_txin_v(pubkey, validate_data(Ins(h, p)[txin_index]), pre_hash(h, p, txin_index))

RECURSIVE sign_from(_, _, _, _, _, _)
\* sign_from, given a
sign_from_a(h, p, i, j, keypairs, cnt, sig, a) ==
    IF ~sig.ok THEN [h |-> h, p |-> p, err |-> sig.err, cnt |-> cnt]
    ELSE sign_from(a.h, a.p, i, j + 1, keypairs, cnt + 1)

\* sign_from, given sig
sign_from_sig(h, p, i, j, keypairs, cnt, txin, sig) ==
    sign_from_a(h, p, i, j, keypairs, cnt, sig,
        add_signature_to_txin(h, p, i, txin.pubkeys[j], sig.v))

\* PartialTransaction.sign(keypairs): the loops over inputs i and their
\* pubkeys j: [h, p, err, cnt]
sign_from(h, p, i, j, keypairs, cnt) ==
    IF i > Len(Val(p.inputs))
    THEN [h |-> h, p |-> invalidate_ser_cache(p), err |-> "none", cnt |-> cnt]
    ELSE LET txin == Ins(h, p)[i]
         IN IF j > Len(txin.pubkeys) \/ txin_is_complete(txin)
            THEN sign_from(h, p, i + 1, 1, keypairs, cnt)
            ELSE IF txin.pubkeys[j] \notin keypairs
            THEN sign_from(h, p, i, j + 1, keypairs, cnt)
            ELSE sign_from_sig(h, p, i, j, keypairs, cnt, txin,
                     sign_txin(h, p, i, txin.pubkeys[j]))

sign(h, p, keypairs) == sign_from(h, p, 1, 1, keypairs, 0)

RECURSIVE update_signatures_from(_, _, _, _)
\* update_signatures_from, given a
update_signatures_from_a(h, p, signatures, i, txin, sig, ph, signers, a) ==
    IF \E k \in DOMAIN txin.part_sigs : txin.part_sigs[k] = sig
    THEN update_signatures_from(h, p, signatures, i + 1)
    ELSE IF ~ph.ok THEN Res(h, p, ph.err)
    ELSE IF signers = {} THEN update_signatures_from(h, p, signatures, i + 1)
    ELSE update_signatures_from(a.h, a.p, signatures, i + 1)

\* update_signatures_from, given k0
update_signatures_from_k0(h, p, signatures, i, txin, sig, ph, signers, k0) ==
    update_signatures_from_a(h, p, signatures, i, txin, sig, ph, signers,
        add_signature_to_txin(h, p, i, txin.pubkeys[k0], sig))

\* update_signatures_from, given signers
update_signatures_from_signers(h, p, signatures, i, txin, sig, ph, signers) ==
    update_signatures_from_k0(h, p, signatures, i, txin, sig, ph, signers,
        CHOOSE k \in signers : \A m \in signers : k <= m)

\* update_signatures_from, given ph
update_signatures_from_ph(h, p, signatures, i, txin, sig, ph) ==
    update_signatures_from_signers(h, p, signatures, i, txin, sig, ph,
        {k \in 1..Len(txin.pubkeys) :
            ph.ok /\ sign_transaction(txin.pubkeys[k], ph.v) = sig})

\* PartialTransaction.update_signatures(signatures): the loop over inputs
update_signatures_from(h, p, signatures, i) ==
    IF i > Len(Val(p.inputs)) THEN Res(h, invalidate_ser_cache(p), "none")
    ELSE LET txin == Ins(h, p)[i]
             sig == signatures[i]
         IN  update_signatures_from_ph(h, p, signatures, i, txin, sig, pre_hash(h, p, i))

update_signatures(h, p, signatures) ==
    IF is_complete(h, p) THEN Res(h, p, "none")
    ELSE IF Len(Val(p.inputs)) # Len(signatures) THEN Res(h, p, "Exception")
    ELSE update_signatures_from(h, p, signatures, 1)

----------------------------------------------------------------------------
(* Scan over gap plugin (plugins/scan_over_gap/scan_over_gap.py): the       *)
(* plugin object, the WalletScan and Scan objects of one wallet, and the    *)
(* coroutines do_scan, add_found and init_scans as the event loop runs      *)
(* them: a coroutine runs without interruption from one await that          *)
(* suspends it to the next.                                                 *)

\* do_scan and add_found calls made
MaxScanCalls == 2

\* init_scans calls made
MaxInitCalls == 2

\* cnt, the number of addresses a do_scan call derives for each scan
ScanCnt == 1

\* wallet.gap_limit and wallet.gap_limit_for_change
GapLimit == 1

\* the addresses of each chain in the wallet at the start
NumAddrs == 1

\* the coroutines that can be in progress at the same time
Coros == 1..2

\* a dict without keys
NoItems == [i \in {} |-> 0]

\* a balance request: running, ended with a balance, or ended with an
\* exception
Task(state, balance) == [state |-> state, balance |-> balance]

\* Scan(...) as init_scans creates it.  addrs holds the keys of the dict
\* (the address of index i is derive(i)); tasks maps an index to the
\* state of its balance request
Scan(start_idx, for_change) ==
    [gap |-> GapLimit, start_idx |-> start_idx, next_idx |-> start_idx,
     for_change |-> for_change, addrs |-> {}, tasks |-> NoItems,
     balances |-> NoItems, errors |-> {}, active |-> TRUE]

\* Scan.uncompleted
uncompleted(s) == s.addrs \ DOMAIN s.balances

\* Scan.derive_addrs(cnt)
derive_addrs(s, cnt) ==
    [s EXCEPT !.addrs = @ \cup (s.next_idx .. s.next_idx + cnt - 1),
              !.next_idx = @ + cnt]

\* the number of addresses of the chain after the while loop of
\* create_new_addrs has run for index i: every create_addr() adds one
\* address, and the loop runs at least once and until start_idx > i + gap
created_upto(num, i, gap) == IF num + 1 > i + gap + 1 THEN num + 1 ELSE i + gap + 1

RECURSIVE create_new_addrs_from(_, _, _)
\* create_new_addrs over the balances with index >= i: [s, num], num the
\* number of addresses of the wallet's chain
create_new_addrs_from(s, num, i) ==
    IF \A j \in DOMAIN s.balances : j < i THEN [s |-> s, num |-> num]
    ELSE IF i \notin DOMAIN s.balances THEN create_new_addrs_from(s, num, i + 1)
    ELSE IF s.balances[i] > 0 /\ s.start_idx <= i + s.gap
    THEN create_new_addrs_from(
             [s EXCEPT !.start_idx = created_upto(num, i, s.gap),
                       !.next_idx = IF @ < created_upto(num, i, s.gap)
                                    THEN created_upto(num, i, s.gap) ELSE @,
                       !.balances[i] = 0],
             created_upto(num, i, s.gap), i + 1)
    ELSE create_new_addrs_from([s EXCEPT !.balances[i] = 0], num, i + 1)

\* Scan.create_new_addrs(wallet): [s, num]
create_new_addrs(s, num) == create_new_addrs_from(s, num, 0)

\* WalletScan()
WalletScan == [progress |-> 0, running |-> FALSE, scans |-> <<>>, error |-> None]

\* ScanOverGapPlugin.__init__.  wallet_scans is the entry of the one wallet
\* (None, or the id of its WalletScan), objects the WalletScan objects made
\* so far by id, wallet_scans_lock the coroutine holding the lock or 0
ScanOverGapPlugin == [wallet_scans |-> None, wallet_scans_lock |-> 0, objects |-> <<>>]

\* the wallet: the number of receiving and of change addresses
Wallet == [num_receiving |-> NumAddrs, num_change |-> NumAddrs]

\* a coroutine slot: the function (fn "none" when the slot is free), the
\* place it is suspended at, and its locals; scans is the id of the
\* WalletScan whose Scan objects the local list scans holds, 0 before the
\* list is made, and e the exception caught
Coro(fn, pc, scans, k, to_scan_cnt, done_cnt) ==
    [fn |-> fn, pc |-> pc, scans |-> scans, k |-> k,
     to_scan_cnt |-> to_scan_cnt, done_cnt |-> done_cnt, e |-> None]

NoCoro == Coro("none", "done", 0, 0, 0, 0)

\* the event loop: its coroutines and the numbers of calls made so far
Loop == [coros |-> [c \in Coros |-> NoCoro], calls |-> 0, inits |-> 0]

\* the scans of WalletScan id that are active, from position k on
ActiveFrom(pl, id, k) ==
    {j \in k..Len(pl.objects[id].scans) : pl.objects[id].scans[j].active}

\* the first of them, given that there is one
FirstActiveFrom(pl, id, k) ==
    CHOOSE j \in ActiveFrom(pl, id, k) : \A x \in ActiveFrom(pl, id, k) : j <= x

\* do_scan: len(s.uncompleted) summed over the active scans
uncompleted_active(ws) ==
    Cardinality(UNION {{<<j, i>> : i \in uncompleted(ws.scans[j])} :
                          j \in {x \in 1..Len(ws.scans) : ws.scans[x].active}})

\* do_scan: a balance request is spawned for every address of every scan
\* that has no balance yet
spawn_tasks(ws) ==
    [ws EXCEPT !.scans = List([j \in 1..Len(ws.scans) |->
        [ws.scans[j] EXCEPT !.tasks =
            [i \in (DOMAIN ws.scans[j].tasks) \cup uncompleted(ws.scans[j]) |->
                IF i \in uncompleted(ws.scans[j]) THEN Task("pending", 0)
                ELSE ws.scans[j].tasks[i]]]])]

\* do_scan after the task group: the results become balances, the
\* exceptions errors, and the tasks are cleared
collect_tasks(ws) ==
    [ws EXCEPT !.scans = List([j \in 1..Len(ws.scans) |->
        [ws.scans[j] EXCEPT
            !.balances = [i \in (DOMAIN ws.scans[j].balances)
                                  \cup {t \in DOMAIN ws.scans[j].tasks : ws.scans[j].tasks[t].state # "error"} |->
                             IF i \in DOMAIN ws.scans[j].tasks /\ ws.scans[j].tasks[i].state # "error"
                             THEN ws.scans[j].tasks[i].balance ELSE ws.scans[j].balances[i]],
            !.errors = (@ \ {t \in DOMAIN ws.scans[j].tasks : ws.scans[j].tasks[t].state # "error"})
                          \cup {t \in DOMAIN ws.scans[j].tasks : ws.scans[j].tasks[t].state = "error"},
            !.tasks = NoItems]])]

\* a step of a coroutine ends in [plugin, coro]: the plugin and the
\* coroutine's slot as the step leaves them.  A coroutine can be suspended
\* wherever it acquires wallet_scans_lock
Suspended(pl, coro) == [plugin |-> pl, coro |-> coro]

\* on_completed(wallet) with the lock acquired
on_completed(pl) ==
    IF IsNone(pl.wallet_scans) THEN pl
    ELSE [pl EXCEPT !.objects[Val(pl.wallet_scans)].running = FALSE]

\* on_error(wallet, e) with the lock acquired
on_error(pl, e) ==
    IF IsNone(pl.wallet_scans) THEN pl
    ELSE [pl EXCEPT !.objects[Val(pl.wallet_scans)].error = Some(e),
                    !.objects[Val(pl.wallet_scans)].running = FALSE]

\* on_progress(wallet, progress) with the lock acquired
on_progress(pl, progress) ==
    IF IsNone(pl.wallet_scans) THEN pl
    ELSE [pl EXCEPT !.objects[Val(pl.wallet_scans)].progress = progress]

\* init_scans(wallet, reset=reset) with the lock acquired
init_scans(pl, w, reset) ==
    IF ~reset /\ IsSome(pl.wallet_scans) THEN pl
    ELSE [pl EXCEPT
             !.objects = Append(@, [WalletScan EXCEPT
                 !.scans = <<Scan(w.num_receiving, 0), Scan(w.num_change, 1)>>]),
             !.wallet_scans = Some(Len(pl.objects) + 1)]

\* do_scan from the loop that derives addresses, at scan k, the list scans
\* being that of WalletScan id: up to the lock of the next active scan, or
\* past the loop to the return or to the task group
do_scan_derive(pl, id, k, to_scan_cnt) ==
    IF ActiveFrom(pl, id, k) # {}
    THEN Suspended(pl, Coro("do_scan", "derive", id, FirstActiveFrom(pl, id, k),
                            to_scan_cnt, 0))
    ELSE IF to_scan_cnt = 0 THEN Suspended(pl, NoCoro)
    ELSE Suspended([pl EXCEPT !.objects[id] = spawn_tasks(@)],
                   Coro("do_scan", "next_done", id, 0, to_scan_cnt, 0))

\* do_scan after ws.running = True, given n = Network.get_instance()
do_scan_running(pl, id, n) ==
    IF IsNone(n)
    THEN Suspended(pl, [Coro("do_scan", "on_error", id, 0, 0, 0) EXCEPT
                           !.e = Some("AttributeError")])
    ELSE IF uncompleted_active(pl.objects[id]) > 0
    THEN Suspended([pl EXCEPT !.objects[id] = spawn_tasks(@)],
                   Coro("do_scan", "next_done", id, 0, uncompleted_active(pl.objects[id]), 0))
    ELSE do_scan_derive(pl, id, 1, 0)

\* do_scan(wallet, cnt) from its start, with the lock acquired
do_scan(pl, n) ==
    IF IsNone(pl.wallet_scans) \/ pl.objects[Val(pl.wallet_scans)].running
    THEN Suspended(pl, NoCoro)
    ELSE do_scan_running([pl EXCEPT !.objects[Val(pl.wallet_scans)].running = TRUE],
                         Val(pl.wallet_scans), n)

\* do_scan when one of its tasks has ended with the given outcome and the
\* lock is acquired for on_progress: after the last task the results are
\* collected and on_completed is awaited
do_scan_next_done(pl, co, j, i, outcome) ==
    LET pl1 == on_progress(
                   [pl EXCEPT !.objects[co.scans].scans[j].tasks[i] = outcome],
                   (100 * (co.done_cnt + 1)) \div co.to_scan_cnt)
    IN  IF \E x \in 1..Len(pl1.objects[co.scans].scans) :
              \E t \in DOMAIN pl1.objects[co.scans].scans[x].tasks :
                  pl1.objects[co.scans].scans[x].tasks[t].state = "pending"
        THEN Suspended(pl1, [co EXCEPT !.done_cnt = @ + 1])
        ELSE Suspended([pl1 EXCEPT !.objects[co.scans] = collect_tasks(@)],
                       [co EXCEPT !.done_cnt = @ + 1, !.pc = "on_completed"])

\* add_found(wallet) from its start by coroutine c, given
\* n = Network.get_instance(); the lock is acquired when n is not None
add_found(pl, c, n) ==
    IF IsNone(n)
    THEN Suspended(pl, [Coro("add_found", "on_error", 0, 0, 0, 0) EXCEPT
                           !.e = Some("AttributeError")])
    ELSE IF IsNone(pl.wallet_scans) \/ pl.objects[Val(pl.wallet_scans)].running
    THEN Suspended(pl, NoCoro)
    ELSE Suspended([pl EXCEPT !.objects[Val(pl.wallet_scans)].running = TRUE,
                              !.wallet_scans_lock = c],
                   Coro("add_found", "run_in_executor", Val(pl.wallet_scans), 1, 0, 0))

----------------------------------------------------------------------------
(* Signing scenario: two PartialTransaction objects as a wallet builds     *)
(* them, each spending an output of one funding transaction (or being a    *)
(* coinbase), and the operations applied to them.                          *)

MaxOps == 3

Key(id) == <<2, id>> \o Bytes(31, id)

Keys == <<Key(1), Key(2), Key(3)>>

\* the 2-of-3 redeem script of the funded p2sh output, and one that does not
\* belong to it
RedeemScript == multisig_script(Keys, 2)
OtherRedeemScript == multisig_script(SubSeq(Keys, 1, 2), 2)

\* FundingTx, given outs
FundingTx_outs(t, ins, outs) ==
    txid(deserialize(Transaction(Some(network_bytes(t, ins, <<(<<81>>)>>, outs)))).tx).tx

\* the funding transaction, parsed from its network bytes and asked for its
\* txid, as the utxo setter leaves it
FundingTx ==
    LET t == [Transaction(None) EXCEPT !.version = 1, !.overwintered = FALSE]
        ins == <<TxInput(TxOutpoint(Bytes(32, 0), 0), Some(<<81>>), DefaultSequence)>>
    IN  FundingTx_outs(t, ins,
            <<TxOutput(p2sh_script(hash_160(RedeemScript)), 5000),
              TxOutput(p2pkh_script(hash_160(Key(1))), 3000)>>)

FundingTxid == Val(txid(FundingTx).v)

\* a PartialTxInput with the fields a wallet fills in for its own coins
WalletTxIn(kind) ==
    CASE kind = "A" ->
           [PartialTxInput(TxOutpoint(FundingTxid, 0), None, DefaultSequence) EXCEPT
              !.utxo = Some(FundingTx), !.script_type = "p2sh", !.num_sig = 2,
              !.pubkeys = Keys, !.redeem_script = Some(RedeemScript)]
      [] kind = "Abad" ->
           [PartialTxInput(TxOutpoint(FundingTxid, 0), None, DefaultSequence) EXCEPT
              !.script_type = "p2sh", !.num_sig = 2,
              !.pubkeys = SubSeq(Keys, 1, 2), !.redeem_script = Some(OtherRedeemScript),
              !.trusted_value_sats = Some(5000)]
      [] kind = "B" ->
           [PartialTxInput(TxOutpoint(FundingTxid, 1), None, DefaultSequence) EXCEPT
              !.utxo = Some(FundingTx), !.script_type = "p2pkh", !.pubkeys = <<Key(1)>>]
      [] kind = "C" ->
           PartialTxInput(TxOutpoint(Bytes(32, 0), 0), Some(<<81, 82>>), DefaultSequence)
      [] OTHER ->
           PartialTxInput(TxOutpoint(Bytes(32, 0), 0), None, DefaultSequence)

WalletTxOut(kind) ==
    IF kind = "B" THEN PartialTxOutput(p2pkh_script(hash_160(Key(3))), 2000)
    ELSE PartialTxOutput(p2pkh_script(hash_160(Key(2))), 4000)

\* the pairs of transactions the scenario starts from: the same unsigned
\* transaction twice (to combine), or transactions spending different coins
\* (to join)
TxKinds ==
    {<<"A", "A">>, <<"Abad", "A">>, <<"A", "B">>, <<"B", "B">>, <<"C", "A">>, <<"C", "C0">>}

\* the record of the operation performed last: the method, the object it was
\* called on, whether it returned or raised, what it returned, how many
\* operations have run, and whether before the call the receiver was
\* complete and some input of either transaction held a signature
Last(op, r, ok, err, v, n, was_complete, had_sigs) ==
    [op |-> op, r |-> r, ok |-> ok, err |-> err, v |-> v, n |-> n,
     was_complete |-> was_complete, had_sigs |-> had_sigs]

HasSigs(h, p) ==
    \E i \in 1..Len(Val(p.inputs)) :
        h[Val(p.inputs)[i]].part_sigs # EmptyMap \/ IsSome(h[Val(p.inputs)[i]].script_sig)

Init ==
    /\ \E k \in TxKinds :
         /\ heap = <<WalletTxIn(k[1]), WalletTxOut(k[1]), WalletTxIn(k[2]), WalletTxOut(k[2])>>
         /\ ptx = <<[PartialTransaction EXCEPT !.inputs = Some(<<1>>), !.outputs = Some(<<2>>)],
                    [PartialTransaction EXCEPT !.inputs = Some(<<3>>), !.outputs = Some(<<4>>)]>>
    /\ last = Last("init", 0, TRUE, "none", <<>>, 0, FALSE, FALSE)
    /\ ctx = Transaction(None)
    /\ wire = <<>>
    /\ cres = NoResult
    /\ bcds = BCDataStream
    /\ written = NoWrites
    /\ plugin = ScanOverGapPlugin
    /\ wallet = Wallet
    /\ loop = Loop

\* one operation on ptx[r] that ends with heap x.h, object x.p, exception
\* x.err and result v
Step(op, r, res, result) ==
    /\ last.n < MaxOps
    /\ \E x \in {res} : \E v \in {result} :
         /\ heap' = x.h
         /\ ptx' = [ptx EXCEPT ![r] = x.p]
         /\ last' = Last(op, r, x.err = "none", x.err, v, last.n + 1,
                         is_complete(heap, ptx[r]),
                         HasSigs(heap, ptx[1]) \/ HasSigs(heap, ptx[2]))
    /\ UNCHANGED <<ctx, wire, cres, stream, scanner>>

Sign(r) ==
    \E ks \in {{Key(1)}, {Key(2)}} \cup (IF r = 1 THEN {{Key(1), Key(2)}} ELSE {}) :
        \E x \in {sign(heap, ptx[r], ks)} : Step("sign", r, x, x.cnt)

AddSignatureToTxin(r) ==
    \E k \in {2} :
        Step("add_signature_to_txin", r,
             add_signature_to_txin(heap, ptx[r], 1, Key(k), <<48, k, 0, 0, 1>>), <<>>)

\* the signature of the key k for the hash ph, zeros standing for a hash
\* that cannot be computed
SignatureFor(k, ph) == sign_transaction(Key(k), IF ph.ok THEN ph.v ELSE Bytes(32, 0))

\* the signature lists given to update_signatures: for one input a signature
\* of its third key or of a key it does not list, for two inputs signatures
\* of listed keys in order and swapped, and no signature at all
SignatureLists(ph1, ph2) ==
    {<<SignatureFor(3, ph1)>>, <<SignatureFor(4, ph1)>>, <<>>,
     <<SignatureFor(3, ph1), SignatureFor(1, ph2)>>,
     <<SignatureFor(1, ph2), SignatureFor(3, ph1)>>}

UpdateSignatures(r) ==
    \E signatures \in SignatureLists(pre_hash(heap, ptx[r], 1),
                                      IF Len(Val(ptx[r].inputs)) >= 2
                                      THEN pre_hash(heap, ptx[r], 2) ELSE Err("none")) :
        Step("update_signatures", r, update_signatures(heap, ptx[r], signatures), signatures)

RemoveSignatures(r) ==
    Step("remove_signatures", r, remove_signatures(heap, ptx[r]), <<>>)

Combine(r) ==
    Step("combine_with_other_psbt", r,
         combine_with_other_psbt(heap, ptx[r], ptx[3 - r]), <<>>)

Join(r) ==
    Step("join_with_other_psbt", r, join_with_other_psbt(heap, ptx[r], ptx[3 - r]), <<>>)

SetLocktime(r) ==
    Step("locktime", r, Res(heap, set_locktime(ptx[r], 111), "none"), <<>>)

SetVersion(r) ==
    Step("version", r, Res(heap, set_version(ptx[r], 3), "none"), <<>>)

\* add_inputs / add_outputs with one new object
AddInputs(r) ==
    /\ Len(heap) < 6
    /\ \E h \in {Append(heap, WalletTxIn("B"))} :
         Step("add_inputs", r, Res(h, add_inputs(h, ptx[r], <<Len(h)>>), "none"), <<>>)

AddOutputs(r) ==
    /\ Len(heap) < 6
    /\ \E h \in {Append(heap, WalletTxOut("B"))} :
         Step("add_outputs", r, Res(h, add_outputs(h, ptx[r], <<Len(h)>>), "none"), <<>>)

FinalizePsbt(r) ==
    \E x \in {finalize_psbt(heap, ptx[r])} :
        Step("finalize_psbt", r, Res(x.h, ptx[r], x.err), <<>>)

Serialize(r) ==
    \E x \in {p_serialize(heap, ptx[r])} : Step("serialize", r, x, x.v)

SerializeAsBytes(r) ==
    \E force_psbt \in BOOLEAN : \E x \in {p_serialize_as_bytes(heap, ptx[r], force_psbt)} :
        Step(IF force_psbt THEN "serialize_as_bytes(force_psbt)" ELSE "serialize_as_bytes",
             r, x, x.v)

Txid(r) ==
    \E x \in {p_txid(heap, ptx[r])} : Step("txid", r, Res(heap, x.p, x.err), x.v)

\* tx_from_any on the bytes or text the last operation returned
TxFromAny ==
    /\ last.op \in {"serialize", "serialize_as_bytes", "serialize_as_bytes(force_psbt)"}
    /\ last.ok
    /\ \E x \in {tx_from_any(heap, last.v)} :
         Step("tx_from_any", last.r, Res(heap, ptx[last.r], x.err),
              [cls |-> x.cls, of |-> last.v.kind,
               psbt |-> Prefix(last.v.v, 5) = PSBT_MAGIC,
               same |-> x.ok /\ x.cls = "PartialTransaction"
                        /\ serialize_psbt(x.h, x.p) = serialize_psbt(heap, ptx[last.r])])

Next ==
    \/ \E r \in 1..2 : Sign(r)
    \/ \E r \in 1..2 : Combine(r)
    \/ \E r \in 1..2 : Join(r)
    \/ AddSignatureToTxin(1)
    \/ UpdateSignatures(1)
    \/ RemoveSignatures(1)
    \/ SetLocktime(1)
    \/ SetVersion(1)
    \/ AddInputs(1)
    \/ AddOutputs(1)
    \/ FinalizePsbt(1)
    \/ Serialize(1)
    \/ SerializeAsBytes(1)
    \/ Txid(1)
    \/ TxFromAny

Spec == Init /\ [][Next]_vars

----------------------------------------------------------------------------
(* Codec scenario: a Transaction object, given as wire bytes or assembled   *)
(* field by field, is parsed, serialized, asked for its txid, parsed again  *)
(* from its own serialization and turned into a PartialTransaction.         *)

Result(op, ok, v, err) == [op |-> op, ok |-> ok, v |-> v, err |-> err]

CInit ==
    /\ \E d \in TxDescs : \E assembled \in BOOLEAN :
         /\ wire = IF assembled THEN <<>> ELSE WireFormat(d)
         /\ ctx = IF assembled THEN TransactionOf(d) ELSE Transaction(Some(WireFormat(d)))
    /\ heap = <<>>
    /\ ptx = <<PartialTransaction, PartialTransaction>>
    /\ last = Last("init", 0, TRUE, "none", <<>>, 0, FALSE, FALSE)
    /\ cres = NoResult
    /\ bcds = BCDataStream
    /\ written = NoWrites
    /\ plugin = ScanOverGapPlugin
    /\ wallet = Wallet
    /\ loop = Loop

\* tx.deserialize()
CDeserialize ==
    /\ IsNone(ctx.inputs)
    /\ \E d \in {deserialize(ctx)} :
         /\ ctx' = d.tx
         /\ cres' = Result("deserialize", d.err = "none", <<>>, d.err)
    /\ UNCHANGED <<heap, ptx, last, wire, stream, scanner>>

\* tx.serialize()
CSerialize ==
    /\ \E r \in {serialize(ctx)} :
         /\ ctx' = r.tx
         /\ cres' = Result("serialize", r.ok, r.v, r.err)
    /\ UNCHANGED <<heap, ptx, last, wire, stream, scanner>>

\* tx.serialize_to_network()
CSerializeToNetwork ==
    /\ \E r \in {serialize_to_network(ctx, FALSE, TRUE)} :
         /\ ctx' = r.tx
         /\ cres' = Result("serialize_to_network", r.ok, r.v, r.err)
    /\ UNCHANGED <<heap, ptx, last, wire, stream, scanner>>

\* tx.txid()
CTxid ==
    /\ \E r \in {txid(ctx)} :
         /\ ctx' = r.tx
         /\ cres' = Result("txid", r.ok, r.v, r.err)
    /\ UNCHANGED <<heap, ptx, last, wire, stream, scanner>>

\* Transaction(raw).deserialize() for the bytes the last serialization
\* returned; the result holds the fields of the old and of the new object
CParse ==
    /\ cres.op \in {"serialize", "serialize_to_network"}
    /\ cres.ok
    /\ \E d \in {deserialize(Transaction(Some(cres.v)))} :
         /\ ctx' = d.tx
         /\ wire' = cres.v
         /\ cres' = Result("parse", d.err = "none",
                           <<TxFields(deserialize(ctx).tx), TxFields(d.tx)>>, d.err)
    /\ UNCHANGED <<heap, ptx, last, stream, scanner>>

\* PartialTransaction.from_tx(tx)
CFromTx ==
    /\ last.op = "init"
    /\ \E r \in {from_tx(heap, ctx)} :
         /\ heap' = r.h
         /\ ptx' = [ptx EXCEPT ![1] = r.p]
         /\ ctx' = deserialize(ctx).tx
         /\ last' = Last("from_tx", 1, r.err = "none", r.err, <<>>, 1, FALSE, FALSE)
         /\ cres' = Result("from_tx", r.err = "none", <<>>, r.err)
    /\ UNCHANGED <<wire, stream, scanner>>

\* serialize_as_bytes() of the PartialTransaction made by from_tx
CPartialSerializeAsBytes ==
    /\ last.op = "from_tx" /\ last.ok
    /\ \E r \in {p_serialize_as_bytes(heap, ptx[1], FALSE)} :
         /\ heap' = r.h
         /\ ptx' = [ptx EXCEPT ![1] = r.p]
         /\ cres' = Result("from_tx.serialize_as_bytes", r.ok, r.v.v, r.err)
    /\ UNCHANGED <<ctx, last, wire, stream, scanner>>

\* txid() of the PartialTransaction made by from_tx
CPartialTxid ==
    /\ last.op = "from_tx" /\ last.ok
    /\ \E r \in {p_txid(heap, ptx[1])} :
         /\ ptx' = [ptx EXCEPT ![1] = r.p]
         /\ cres' = Result("from_tx.txid", r.ok, r.v, r.err)
    /\ UNCHANGED <<heap, ctx, last, wire, stream, scanner>>

CNext ==
    \/ CDeserialize
    \/ CSerialize
    \/ CSerializeToNetwork
    \/ CTxid
    \/ CParse
    \/ CFromTx
    \/ CPartialSerializeAsBytes
    \/ CPartialTxid

CodecSpec == CInit /\ [][CNext]_vars

----------------------------------------------------------------------------
(* Properties of the codec scenario *)

\* every input of the parsed transaction carries a scriptSig
FullySigned(tx) ==
    /\ IsSome(tx.inputs)
    /\ \A i \in 1..Len(Val(tx.inputs)) : Truthy(Val(tx.inputs)[i].script_sig)

\* C2: parsing well-formed legacy or Overwintered (version 3 or 4) wire bytes
\* B and serializing again returns exactly B, from the cached bytes
\* (serialize) and re-derived from the parsed fields (serialize_to_network,
\* as txid does); and parsing the serialization of a transaction yields the
\* same version, inputs, outputs, locktime, expiry height, value balance and
\* shielded blobs.
C2_WireRoundTrip ==
    /\ (cres.op \in {"serialize", "serialize_to_network"} /\ wire # <<>>) =>
          cres.ok /\ cres.v = wire
    /\ (cres.op = "txid" /\ wire # <<>>) =>
          cres.ok /\ cres.v = Some(Reverse(sha256d(wire)))
    /\ cres.op = "parse" => cres.ok /\ cres.v[1] = cres.v[2]

\* a version 4 transaction with an input, an output and JoinSplit data was
\* parsed from wire bytes and serialized again from its fields
C2_Witness ==
    /\ cres.op = "serialize_to_network" /\ cres.ok /\ wire # <<>>
    /\ ctx.overwintered /\ ctx.version = 4
    /\ IsSome(ctx.joinSplits) /\ IsSome(ctx.inputs) /\ Len(Val(ctx.inputs)) = 1

\* C10: for every fully signed network transaction N, the PartialTransaction
\* built from N by from_tx serializes with force_psbt=false to exactly N, and
\* its txid equals the txid of N.
C10_FromTxKeepsNetworkForm ==
    /\ (cres.op = "from_tx.serialize_as_bytes" /\ FullySigned(ctx)) =>
          cres.ok /\ cres.v = serialize_to_network(ctx, FALSE, TRUE).v
    /\ (cres.op = "from_tx.txid" /\ FullySigned(ctx)) =>
          cres.ok /\ cres.v = txid(ctx).v

----------------------------------------------------------------------------
(* Properties of the signing scenario *)

\* the receiver and the argument of the operation performed last
Rcv == ptx[last.r]
Oth == ptx[3 - last.r]

IdSet(ids) == {ids[i] : i \in 1..Len(ids)}

\* what serialize() returns or raises in a state
SerRes(h, p) ==
    LET x == p_serialize(h, p) IN [ok |-> x.ok, v |-> x.v, err |-> x.err]

\* the network serialization derived from the fields, not from the cache
FreshNetwork(h, p) == p_serialize_to_network(h, p, FALSE, TRUE)

\* the two transactions have the same unsigned serialization
SameUnsigned(h, p, q) ==
    p_serialize_to_network(h, p, FALSE, FALSE).v = p_serialize_to_network(h, q, FALSE, FALSE).v

\* some prevout is spent by an input of both transactions
SharedPrevout(h, p, q) ==
    \E i \in 1..Len(Val(p.inputs)) : \E j \in 1..Len(Val(q.inputs)) :
        h[Val(p.inputs)[i]].prevout = h[Val(q.inputs)[j]].prevout

\* f is a part of g, for two dictionaries
SubMap(f, g) == \A k \in DOMAIN f : k \in DOMAIN g /\ g[k] = f[k]

\* every field the PSBT q carries is held, with the same value, by p
KnownData(h, p, q) ==
    /\ SubMap(q.xpubs, p.xpubs) /\ SubMap(q.unknown, p.unknown)
    /\ Len(Val(q.inputs)) = Len(Val(p.inputs))
    /\ Len(Val(q.outputs)) = Len(Val(p.outputs))
    /\ \A i \in 1..Len(Val(q.inputs)) :
         LET a == h[Val(p.inputs)[i]]
             b == h[Val(q.inputs)[i]]
         IN /\ IsSome(b.script_sig) => b.script_sig = a.script_sig
            /\ IsSome(b.utxo) => b.utxo = a.utxo
            /\ SubMap(b.part_sigs, a.part_sigs)
            /\ IsSome(b.sighash) => b.sighash = a.sighash
            /\ SubMap(b.bip32_paths, a.bip32_paths)
            /\ IsSome(b.redeem_script) => b.redeem_script = a.redeem_script
            /\ SubMap(b.unknown, a.unknown)
    /\ \A j \in 1..Len(Val(q.outputs)) :
         LET a == h[Val(p.outputs)[j]]
             b == h[Val(q.outputs)[j]]
         IN /\ IsSome(b.redeem_script) => b.redeem_script = a.redeem_script
            /\ SubMap(b.bip32_paths, a.bip32_paths)
            /\ SubMap(b.unknown, a.unknown)

\* the number of sections in PSBT bytes after the magic, -1 when a section
\* cannot be read to its separator
RECURSIVE CountSections(_, _, _)
CountSections(buf, pos, n) ==
    IF pos >= Len(buf) THEN n
    ELSE LET r == read_section(buf, pos, <<>>)
         IN IF r.err # "none" THEN -1 ELSE CountSections(buf, r.pos, n + 1)

\* b is the PSBT form of the transaction p: the magic, one global section, one
\* section per input and one per output, holding the fields of p
IsPsbtOf(b, h, p) ==
    /\ Prefix(b, 5) = PSBT_MAGIC
    /\ CountSections(b, 5, 0) = 1 + Len(Val(p.inputs)) + Len(Val(p.outputs))
    /\ b = serialize_psbt(h, p)

\* C1: after any sequence of mutations interleaved with serialize() and
\* txid() calls, every serialize() and txid() result equals the value freshly
\* derived from the current fields, also when a mutation ended with an error.
C1_ResultsAreFresh ==
    /\ (last.op = "serialize" /\ last.ok) =>
          SerRes(heap, invalidate_ser_cache(Rcv)) = [ok |-> TRUE, v |-> last.v, err |-> "none"]
    /\ (last.op = "txid" /\ last.ok) =>
          p_txid(heap, invalidate_ser_cache(Rcv)).v = last.v

C4_OtherUnchangedAndUnaliased ==
    [][last'.op \in {"join_with_other_psbt", "combine_with_other_psbt"}
       => (/\ ptx'[3 - last'.r] = ptx[3 - last'.r]
           /\ \A i \in 1..Len(Val(ptx[3 - last'.r].inputs)) :
                LET id == Val(ptx[3 - last'.r].inputs)[i]
                IN /\ heap'[id].part_sigs = heap[id].part_sigs
                   /\ heap'[id].script_sig = heap[id].script_sig
           /\ IdSet(Val(ptx'[last'.r].inputs)) \cap IdSet(Val(ptx'[3 - last'.r].inputs)) = {}
           /\ IdSet(Val(ptx'[last'.r].outputs)) \cap IdSet(Val(ptx'[3 - last'.r].outputs)) = {})]_vars

\* C5: combine_with_other_psbt fails when the unsigned serializations differ,
\* join_with_other_psbt fails when a prevout is spent by both transactions,
\* and whenever either fails the receiver's inputs, outputs, global fields,
\* signatures and script_sigs are exactly as they were before the call.
C5_FailureLeavesReceiverUntouched ==
    [][(/\ (last'.op = "combine_with_other_psbt"
              /\ ~SameUnsigned(heap, ptx[last'.r], ptx[3 - last'.r])) => ~last'.ok
        /\ (last'.op = "join_with_other_psbt"
              /\ SharedPrevout(heap, ptx[last'.r], ptx[3 - last'.r])) => ~last'.ok
        /\ (last'.op \in {"join_with_other_psbt", "combine_with_other_psbt"} /\ ~last'.ok)
             => (/\ [ptx'[last'.r] EXCEPT !.cached_network_ser = None, !.cached_txid = None]
                      = [ptx[last'.r] EXCEPT !.cached_network_ser = None, !.cached_txid = None]
                 /\ \A id \in IdSet(Val(ptx[last'.r].inputs)) \cup IdSet(Val(ptx[last'.r].outputs)) :
                      heap'[id] = heap[id]))]_vars

C8_TxidOfCompleteOnly ==
    last.op = "txid" =>
        IF ~is_complete(heap, Rcv) THEN last.ok /\ last.v = None
        ELSE /\ last.ok
             /\ FreshNetwork(heap, Rcv).ok
             /\ last.v = Some(Reverse(sha256d(FreshNetwork(heap, Rcv).v)))

\* C9: serialize_as_bytes(force_psbt) returns the network bytes exactly when
\* the transaction is complete and force_psbt is false, and otherwise the PSBT
\* bytes (magic, global section, a section per input and per output);
\* serialize() returns the network hex when complete and the Base64 of the
\* PSBT bytes otherwise; tx_from_any of PSBT bytes yields a
\* PartialTransaction and of network bytes a Transaction.
C9_SerializationForms ==
    /\ last.op = "serialize_as_bytes" =>
         /\ last.ok /\ last.v.kind = "bytes"
         /\ IF is_complete(heap, Rcv)
            THEN FreshNetwork(heap, Rcv).ok /\ last.v.v = FreshNetwork(heap, Rcv).v
            ELSE IsPsbtOf(last.v.v, heap, Rcv)
    /\ last.op = "serialize_as_bytes(force_psbt)" =>
         last.ok /\ last.v.kind = "bytes" /\ IsPsbtOf(last.v.v, heap, Rcv)
    /\ last.op = "serialize" =>
         /\ last.ok /\ last.v.kind = "str"
         /\ IF is_complete(heap, Rcv)
            THEN FreshNetwork(heap, Rcv).ok /\ last.v.v = bh2u(FreshNetwork(heap, Rcv).v)
            ELSE last.v.v = b64encode(serialize_psbt(heap, Rcv))
    /\ (last.op = "tx_from_any" /\ last.v.of = "bytes") =>
         /\ last.ok
         /\ last.v.cls = (IF last.v.psbt THEN "PartialTransaction" ELSE "Transaction")

----------------------------------------------------------------------------
(* Parse scenario: a blob, given as str or bytes, is handed to tx_from_any, *)
(* to PartialTransaction.from_raw_psbt or to Transaction(raw).deserialize(); *)
(* a PartialTransaction parsed from it is then finalized, combined with a   *)
(* second PSBT of the same unsigned transaction, given a utxo, and          *)
(* serialized again.  The blobs are PSBTs laid out entry by entry as BIP174 *)
(* prescribes, network transactions, and damaged variants of both.          *)

\* the bytes of one section entry whose key type is encoded as the bytes kt
RawEntry(kt, key, val) ==
    var_int(Len(kt) + Len(key)) \o kt \o key \o var_int(Len(val)) \o val

\* one section: its entries and the separator
RawSection(entries) == Concat(entries) \o <<0>>

\* a PSBT with one input and one output section
RawPsbt(g, i, o) == PSBT_MAGIC \o RawSection(g) \o RawSection(i) \o RawSection(o)

PsbtHeap == <<WalletTxIn("A"), WalletTxOut("A")>>

PsbtTx == [PartialTransaction EXCEPT !.inputs = Some(<<1>>), !.outputs = Some(<<2>>)]

\* the unsigned transaction all PSBTs of the scenario are about
UnsignedTxBytes == p_serialize_to_network(PsbtHeap, PsbtTx, FALSE, FALSE).v

FundingTxBytes == serialize_to_network(FundingTx, FALSE, TRUE).v

\* a transaction other than the one the input spends
OtherFundingTxBytes ==
    <<1, 0, 0, 0, 0, 1>> \o WireLE(7000, 8) \o <<1, 81>> \o <<0, 0, 0, 0>>

\* an extended public key of depth 0 (version, depth, parent fingerprint,
\* child number, chain code, public key)
XpubKey == <<4, 136, 178, 30, 0>> \o Bytes(4, 0) \o Bytes(4, 0) \o Bytes(32, 7) \o Key(1)

\* entries of the global section: the unsigned transaction, an xpub, the PSBT
\* version, and entries of a type the parser does not interpret, the second
\* with its key type in the three-byte form
GUnsignedTx == RawEntry(<<0>>, <<>>, UnsignedTxBytes)
GXpub == RawEntry(<<1>>, XpubKey, <<1, 2, 3, 4>>)
GVersion == RawEntry(<<251>>, <<>>, <<0, 0, 0, 0>>)
GUnknown == RawEntry(<<15>>, <<1>>, <<9>>)
GUnknownLong == RawEntry(<<253, 14, 0>>, <<1>>, <<8>>)

GlobalEntries == {GUnsignedTx, GXpub, GVersion, GUnknown, GUnknownLong}

\* well-formed entries of an input section; types 1 (witness utxo), 5 (witness
\* script) and 15 are not interpreted
InUtxo == RawEntry(<<0>>, <<>>, FundingTxBytes)
InPartialSig == RawEntry(<<2>>, Key(1), <<48, 1, 0, 0, 1>>)
InSighash == RawEntry(<<3>>, <<>>, <<1, 0, 0, 0>>)
InRedeemScript == RawEntry(<<4>>, <<>>, RedeemScript)
InBip32 == RawEntry(<<6>>, Key(1), <<1, 2, 3, 4, 0, 0, 0, 0>>)
InFinalScriptSig == RawEntry(<<7>>, <<>>, <<81>>)
InWitnessUtxo == RawEntry(<<1>>, <<>>, <<5>>)
InWitnessScript == RawEntry(<<5>>, <<>>, <<81>>)
InUnknown == RawEntry(<<15>>, <<1>>, <<9>>)
InUnknownLong == RawEntry(<<253, 14, 0>>, <<1>>, <<8>>)

InputEntries ==
    {InUtxo, InPartialSig, InSighash, InRedeemScript, InBip32, InFinalScriptSig,
     InWitnessUtxo, InWitnessScript, InUnknown, InUnknownLong}

\* malformed entries of an input section: a utxo that is not the spent
\* transaction or is cut short, a redeem script of another address, a sighash
\* of three bytes or with key data, a signature under a short key, a
\* derivation path that is not a sequence of 32-bit numbers
BadInputEntries ==
    {RawEntry(<<0>>, <<>>, OtherFundingTxBytes),
     RawEntry(<<0>>, <<>>, SubSeq(FundingTxBytes, 1, 20)),
     RawEntry(<<4>>, <<>>, OtherRedeemScript),
     RawEntry(<<3>>, <<>>, <<1, 0, 0>>),
     RawEntry(<<3>>, <<1>>, <<1, 0, 0, 0>>),
     RawEntry(<<2>>, <<2, 1, 1>>, <<48, 1, 0, 0, 1>>),
     RawEntry(<<6>>, Key(1), <<1, 2, 3, 4, 0>>)}

OutRedeemScript == RawEntry(<<0>>, <<>>, <<81>>)
OutBip32 == RawEntry(<<2>>, Key(2), <<1, 2, 3, 4, 1, 0, 0, 0>>)
OutWitnessScript == RawEntry(<<1>>, <<>>, <<81>>)
OutUnknown == RawEntry(<<15>>, <<1>>, <<9>>)

OutputEntries == {OutRedeemScript, OutBip32, OutWitnessScript, OutUnknown}

\* malformed entries of the global section: an unsigned transaction that is
\* empty, cut short, carries a scriptSig or has an unsupported header; a PSBT
\* version other than 0; an xpub key of the wrong length
BadGlobalEntries ==
    {RawEntry(<<0>>, <<>>, <<>>),
     RawEntry(<<0>>, <<>>, SubSeq(UnsignedTxBytes, 1, 30)),
     RawEntry(<<0>>, <<>>, <<1, 0, 0, 0, 1>> \o Bytes(36, 0) \o <<1, 81>>
                            \o DefaultSequence \o <<0, 0, 0, 0, 0>>),
     RawEntry(<<0>>, <<>>, <<5, 0, 0, 128>> \o Bytes(10, 0)),
     RawEntry(<<251>>, <<>>, <<1, 0, 0, 0>>),
     RawEntry(<<1>>, <<4, 136>>, <<1, 2, 3, 4>>)}

\* the entry lists tried in a section: none, one, the same one twice, and two
\* different ones
EntryLists(S) ==
    {<<>>} \cup {<<a>> : a \in S} \cup {<<a, b>> : <<a, b>> \in S \X S}

\* the PSBTs of the scenario: extra entries in one section of a PSBT that
\* holds the unsigned transaction, or a global section without it
PsbtBlobs ==
    {RawPsbt(<<GUnsignedTx>> \o xs, <<>>, <<>>) :
        xs \in EntryLists(GlobalEntries) \cup {<<b>> : b \in BadGlobalEntries}}
    \cup {RawPsbt(xs, <<>>, <<>>) : xs \in {<<>>, <<GVersion>>} \cup {<<b>> : b \in BadGlobalEntries}}
    \cup {RawPsbt(<<GUnsignedTx>>, xs, <<>>) :
            xs \in EntryLists(InputEntries) \cup {<<b>> : b \in BadInputEntries}}
    \cup {RawPsbt(<<GUnsignedTx>>, <<>>, xs) : xs \in EntryLists(OutputEntries)}

\* a PSBT with entries in every section, as a wallet writes it
FullPsbt ==
    RawPsbt(<<GUnsignedTx, GUnknown>>,
            <<InUtxo, InPartialSig, InRedeemScript, InUnknown>>,
            <<OutBip32, OutUnknown>>)

\* every proper prefix of b, and b followed by another byte
Damaged(b) == {SubSeq(b, 1, n) : n \in 0..(Len(b) - 1)} \cup {b \o <<0>>, b \o <<7>>}

\* headers: legacy versions 0..3 and 5, Overwintered versions 2..5 with the
\* group id of version 3, of version 4, or neither
Headers ==
    {<<v, 0, 0, 0>> : v \in {0, 1, 2, 3, 5}}
    \cup {<<v, 0, 0, 128>> \o g : <<v, g>> \in
            (2..5) \X {OVERWINTERED_VERSION_GROUP_ID, SAPLING_VERSION_GROUP_ID, <<1, 2, 3, 4>>}}
    \cup {<<1, 0, 0, 64>>}

\* a transaction without inputs and outputs under the header hdr: the fields
\* the format of that version has after the header, all zero
HeaderBlob(hdr) ==
    hdr \o Bytes(IF hdr[4] < 128 THEN 6
                 ELSE IF hdr[1] = 4 THEN 21 ELSE 11, 0)

NetworkBlobs ==
    {WireFormat(d) : d \in {d \in TxDescs : d.nin = 1 /\ d.nout = 1 /\ d.locktime = 0
                                            /\ d.expiry = 0 /\ d.vb = 0}}
    \cup {HeaderBlob(hdr) : hdr \in Headers}
    \cup Damaged(HeaderBlob(<<4, 0, 0, 128>> \o SAPLING_VERSION_GROUP_ID))
    \cup Damaged(HeaderBlob(<<1, 0, 0, 0>>))

SpaceText == <<32, 13, 10>>

\* the forms a caller passes the bytes b in: raw, and hex and base64 as str
\* and as bytes, bare and with whitespace around them
Encodings(b) ==
    {Text(k, sp \o t \o sp) :
        k \in {"str", "bytes"}, sp \in {<<>>, SpaceText}, t \in {bh2u(b), b64encode(b)}}
    \cup {Text("bytes", b)}

\* what the scenario parses
ParseInputs ==
    {Text("bytes", b) : b \in PsbtBlobs \cup NetworkBlobs \cup Damaged(FullPsbt)}
    \cup UNION {Encodings(b) : b \in {FullPsbt, RawPsbt(<<GUnsignedTx>>, <<>>, <<>>)}}
    \cup UNION {Encodings(b) : b \in {HeaderBlob(<<1, 0, 0, 0>>)}}
    \cup {Text("bytes", SpaceText \o HeaderBlob(<<1, 0, 0, 0>>) \o SpaceText)}
    \cup {Text(k, t) : k \in {"str", "bytes"},
                       t \in {<<>>, SpaceText, <<122, 122, 33>>, <<90, 90>>, <<48, 48>>,
                              <<99, 72, 78, 105, 100, 80, 33>>,
                              bh2u(<<69, 80, 84, 70, 255, 0>>),
                              bh2u(PSBT_MAGIC \o <<253, 1>>),
                              bh2u(PSBT_MAGIC \o <<1, 253, 1, 0>>),
                              bh2u(PSBT_MAGIC \o <<1, 0, 254, 1, 0>>)}}

\* the PSBT a cosigner holds of the same unsigned transaction: a signature
\* of another key, and entries of types that are not interpreted
CosignerPsbt ==
    Text("bytes",
         RawPsbt(<<GUnsignedTx, RawEntry(<<15>>, <<2>>, <<6>>)>>,
                 <<InUtxo, RawEntry(<<2>>, Key(2), <<48, 2, 0, 0, 1>>),
                   RawEntry(<<15>>, <<1>>, <<4>>), RawEntry(<<15>>, <<2>>, <<6>>)>>,
                 <<RawEntry(<<15>>, <<2>>, <<6>>)>>))

\* the scenario starts with the cosigner's PSBT parsed (object 2) and a blob
PInit ==
    /\ wire \in ParseInputs
    /\ \E c \in {from_raw_psbt(<<>>, CosignerPsbt)} :
         /\ heap = c.h
         /\ ptx = <<PartialTransaction, c.p>>
    /\ last = Last("init", 0, TRUE, "none", <<>>, 0, FALSE, FALSE)
    /\ ctx = Transaction(None)
    /\ cres = NoResult
    /\ bcds = BCDataStream
    /\ written = NoWrites
    /\ plugin = ScanOverGapPlugin
    /\ wallet = Wallet
    /\ loop = Loop

\* tx_from_any(wire)
PTxFromAny ==
    /\ cres.op = "none"
    /\ \E x \in {tx_from_any(heap, wire)} :
         /\ heap' = x.h
         /\ ptx' = [ptx EXCEPT ![1] = x.p]
         /\ ctx' = x.tx
         /\ cres' = Result("tx_from_any", x.ok, x.cls, x.err)
    /\ UNCHANGED <<last, wire, stream, scanner>>

\* PartialTransaction.from_raw_psbt(wire)
PFromRawPsbt ==
    /\ cres.op = "none"
    /\ \E x \in {from_raw_psbt(heap, wire)} :
         /\ heap' = x.h
         /\ ptx' = [ptx EXCEPT ![1] = x.p]
         /\ cres' = Result("from_raw_psbt", x.ok,
                           IF x.ok THEN "PartialTransaction" ELSE "none", x.err)
    /\ UNCHANGED <<last, ctx, wire, stream, scanner>>

\* Transaction(wire).deserialize() for raw bytes that are not a PSBT
PDeserialize ==
    /\ cres.op = "none"
    /\ wire.kind = "bytes" /\ Prefix(wire.v, 5) # PSBT_MAGIC
    /\ \E d \in {deserialize(Transaction(Some(wire.v)))} :
         /\ ctx' = d.tx
         /\ cres' = Result("deserialize", d.err = "none", "Transaction", d.err)
    /\ UNCHANGED <<heap, ptx, last, wire, stream, scanner>>

\* a PartialTransaction was parsed and no later operation on it has raised
Parsed ==
    /\ cres.op \in {"tx_from_any", "from_raw_psbt", "finalize_psbt",
                    "combine_with_other_psbt", "utxo"}
    /\ cres.ok
    /\ cres.v = "PartialTransaction"

\* tx.finalize_psbt() on the parsed PartialTransaction
PFinalizePsbt ==
    /\ Parsed /\ cres.op \in {"tx_from_any", "from_raw_psbt"}
    /\ \E x \in {finalize_psbt(heap, ptx[1])} :
         /\ heap' = x.h
         /\ cres' = Result("finalize_psbt", x.err = "none", "PartialTransaction", x.err)
    /\ UNCHANGED <<ptx, last, ctx, wire, stream, scanner>>

\* tx.combine_with_other_psbt(cosigner's)
PCombine ==
    /\ Parsed /\ cres.op \in {"tx_from_any", "from_raw_psbt"}
    /\ \E x \in {combine_with_other_psbt(heap, ptx[1], ptx[2])} :
         /\ heap' = x.h
         /\ ptx' = [ptx EXCEPT ![1] = x.p]
         /\ cres' = Result("combine_with_other_psbt", x.err = "none",
                           "PartialTransaction", x.err)
    /\ UNCHANGED <<last, ctx, wire, stream, scanner>>

\* the cosigner's combine_with_other_psbt(tx)
PCombineOther ==
    /\ Parsed /\ cres.op \in {"tx_from_any", "from_raw_psbt"}
    /\ \E x \in {combine_with_other_psbt(heap, ptx[2], ptx[1])} :
         /\ heap' = x.h
         /\ ptx' = [ptx EXCEPT ![2] = x.p]
         /\ cres' = Result("combine_with_other_psbt", x.err = "none", "cosigner", x.err)
    /\ UNCHANGED <<last, ctx, wire, stream, scanner>>

\* the transactions assigned as utxo: none, the funding transaction, another
UtxoCandidates ==
    {None, Some(FundingTx), Some(deserialize(Transaction(Some(OtherFundingTxBytes))).tx)}

\* txin.utxo = tx on the input of the parsed PartialTransaction
PSetUtxo ==
    /\ Parsed
    /\ \E tx \in UtxoCandidates :
         \E x \in {IF IsNone(tx) THEN [txin |-> heap[Val(ptx[1].inputs)[1]], err |-> "none"]
                   ELSE set_utxo(heap[Val(ptx[1].inputs)[1]], Val(tx))} :
            /\ heap' = [heap EXCEPT ![Val(ptx[1].inputs)[1]] = x.txin]
            /\ cres' = Result("utxo", x.err = "none", "PartialTransaction", x.err)
    /\ UNCHANGED <<ptx, last, ctx, wire, stream, scanner>>

\* tx.serialize_as_bytes(force_psbt=True) on the parsed PartialTransaction
PSerializeAsBytes ==
    /\ Parsed
    /\ \E x \in {p_serialize_as_bytes(heap, ptx[1], TRUE)} :
         /\ heap' = x.h
         /\ ptx' = [ptx EXCEPT ![1] = x.p]
         /\ cres' = Result("serialize_as_bytes", x.ok, x.v.v, x.err)
         /\ last' = Last(cres.op, 1, x.ok, x.err, <<>>, 1, FALSE, FALSE)
    /\ UNCHANGED <<ctx, wire, stream, scanner>>

PNext ==
    \/ PTxFromAny
    \/ PFromRawPsbt
    \/ PDeserialize
    \/ PFinalizePsbt
    \/ PCombine
    \/ PCombineOther
    \/ PSetUtxo
    \/ PSerializeAsBytes

ParseSpec == PInit /\ [][PNext]_vars

----------------------------------------------------------------------------
(* Properties of the parse scenario *)

\* isinstance(e, SerializationError) for the exception named err
IsSerializationError(err) ==
    err \in {"SerializationError", "BadHeaderMagic", "UnexpectedEndOfStream",
             "PSBTInputConsistencyFailure"}

\* C11: every input from which tx_from_any cannot produce a transaction (an
\* empty blob, text in none of the recognized encodings, a truncated PSBT, a
\* PSBT with a malformed field or a duplicate key, a malformed network
\* transaction, an unsupported version header) makes tx_from_any fail with
\* SerializationError and with no other kind of error.
C11_TxFromAnyFailsWithSerializationError ==
    (cres.op = "tx_from_any" /\ ~cres.ok) => IsSerializationError(cres.err)

----------------------------------------------------------------------------
(* Stream scenario: compact sizes and raw bytes are written to a           *)
(* BCDataStream and read back with its read operations in any order.       *)

MaxWrites == 2
MaxReads == 2

Size(neg, mag) == [neg |-> neg, mag |-> mag]

\* the sizes written: around every boundary between two encodings, the
\* largest 64-bit number, and a negative one
SizesWritten ==
    {Size(FALSE, U64(b)) :
        b \in {<<0>>, <<1>>, <<252>>, <<253>>, <<255>>, <<0, 1>>, <<255, 255>>, <<0, 0, 1>>,
               <<255, 255, 255, 255>>, <<0, 0, 0, 0, 1>>, <<0, 0, 0, 0, 0, 0, 0, 128>>,
               Bytes(8, 255)}}
    \cup {Size(TRUE, U64(<<1>>))}

\* the raw bytes written, with the number a compact-size read makes of them
\* if they are one: non-minimal encodings, encodings cut short, strings
RawWrites ==
    {[b |-> <<253, 5, 0>>, v |-> Some(U64(<<5>>))],
     [b |-> <<254, 0, 1, 0, 0>>, v |-> Some(U64(<<0, 1>>))],
     [b |-> <<255, 5, 0, 0, 0, 0, 0, 0, 0>>, v |-> Some(U64(<<5>>))],
     [b |-> <<253, 5>>, v |-> None],
     [b |-> <<255, 1, 2, 3>>, v |-> None],
     [b |-> <<2, 104, 105>>, v |-> None],
     [b |-> <<3, 104>>, v |-> None],
     [b |-> <<>>, v |-> None]}

Formats == {"<b", "<B", "<h", "<H", "<i", "<I", "<q", "<Q"}

ReadLengths == {0, 1, 4}

\* the bookkeeping after a write that queued items
Wrote(items) ==
    [written EXCEPT !.items = @ \o items, !.nw = @ + 1, !.expect = None,
                    !.before = bcds, !.arg = 0]

\* the bookkeeping after a read other than read_compact_size
Read(arg) ==
    [written EXCEPT !.aligned = FALSE, !.nr = @ + 1, !.expect = None,
                    !.before = bcds, !.arg = arg]

\* the bookkeeping after read_compact_size: it takes the head of the queue
ReadSize ==
    IF written.items = <<>>
    THEN [written EXCEPT !.nr = @ + 1, !.expect = None, !.before = bcds, !.arg = 0]
    ELSE [written EXCEPT !.items = Tail(@),
                         !.aligned = @ /\ ~IsNone(Head(written.items)),
                         !.nr = @ + 1,
                         !.expect = IF written.aligned THEN Head(written.items) ELSE None,
                         !.before = bcds, !.arg = 0]

SInit ==
    /\ heap = <<>>
    /\ ptx = <<PartialTransaction, PartialTransaction>>
    /\ last = Last("init", 0, TRUE, "none", <<>>, 0, FALSE, FALSE)
    /\ ctx = Transaction(None)
    /\ wire = <<>>
    /\ cres = NoResult
    /\ bcds = BCDataStream
    /\ written = NoWrites
    /\ plugin = ScanOverGapPlugin
    /\ wallet = Wallet
    /\ loop = Loop

SWriteCompactSize ==
    /\ written.nw < MaxWrites
    /\ \E size \in SizesWritten : \E x \in {write_compact_size(bcds, size)} :
         /\ bcds' = x.s
         /\ cres' = Result("write_compact_size", x.err = "none", size.mag, x.err)
         /\ written' = Wrote(IF x.err = "none" THEN <<Some(size.mag)>> ELSE <<>>)
    /\ UNCHANGED <<heap, ptx, last, ctx, wire, scanner>>

SWrite ==
    /\ written.nw < MaxWrites
    /\ \E w \in RawWrites :
         /\ bcds' = write(bcds, w.b)
         /\ cres' = Result("write", TRUE, w.b, "none")
         /\ written' = Wrote(<<w.v>>)
    /\ UNCHANGED <<heap, ptx, last, ctx, wire, scanner>>

SReadCompactSize ==
    /\ written.nr < MaxReads
    /\ \E x \in {read_compact_size_raw(bcds)} :
         /\ bcds' = x.s
         /\ cres' = Result("read_compact_size", x.ok, x.v, x.err)
         /\ written' = ReadSize
    /\ UNCHANGED <<heap, ptx, last, ctx, wire, scanner>>

SReadBytes ==
    /\ written.nr < MaxReads
    /\ \E length \in ReadLengths : \E x \in {read_bytes(bcds, length)} :
         /\ bcds' = x.s
         /\ cres' = Result("read_bytes", x.ok, x.v, x.err)
         /\ written' = Read(length)
    /\ UNCHANGED <<heap, ptx, last, ctx, wire, scanner>>

SReadString ==
    /\ written.nr < MaxReads
    /\ \E x \in {read_string(bcds)} :
         /\ bcds' = x.s
         /\ cres' = Result("read_string", x.ok, x.v, x.err)
         /\ written' = Read(0)
    /\ UNCHANGED <<heap, ptx, last, ctx, wire, scanner>>

SReadBoolean ==
    /\ written.nr < MaxReads
    /\ \E x \in {read_boolean(bcds)} :
         /\ bcds' = x.s
         /\ cres' = Result("read_boolean", x.ok, x.v, x.err)
         /\ written' = Read(0)
    /\ UNCHANGED <<heap, ptx, last, ctx, wire, scanner>>

SReadNum ==
    /\ written.nr < MaxReads
    /\ \E format \in Formats : \E x \in {read_num(bcds, format)} :
         /\ bcds' = x.s
         /\ cres' = Result("_read_num", x.ok, x.v, x.err)
         /\ written' = Read(calcsize(format))
    /\ UNCHANGED <<heap, ptx, last, ctx, wire, scanner>>

SNext ==
    \/ SWriteCompactSize
    \/ SWrite
    \/ SReadCompactSize
    \/ SReadBytes
    \/ SReadString
    \/ SReadBoolean
    \/ SReadNum

StreamSpec == SInit /\ [][SNext]_vars

----------------------------------------------------------------------------
(* Properties of the stream scenario *)

\* the length of the shortest compact-size encoding of n, a U64
ShortestSize(n) ==
    IF Below(n, 1) /\ n[1] <= 252 THEN 1
    ELSE IF Below(n, 2) THEN 3
    ELSE IF Below(n, 4) THEN 5
    ELSE 9

\* the bytes of a stream
InputOf(s) == IF IsNone(s.input) THEN <<>> ELSE Val(s.input)

\* C12: for every n with 0 <= n < 2^64, write_compact_size(n) appends the
\* shortest of the four encodings (1, 3, 5 or 9 bytes), and read_compact_size
\* returns the values written, minimally encoded or not, in the order
\* written.
C12_CompactSizeRoundTrip ==
    /\ (cres.op = "write_compact_size" /\ cres.ok)
         => /\ Len(InputOf(bcds)) = Len(InputOf(written.before)) + ShortestSize(cres.v)
            /\ Prefix(InputOf(bcds), Len(InputOf(written.before))) = InputOf(written.before)
    /\ (cres.op = "read_compact_size" /\ ~IsNone(written.expect))
         => cres.ok /\ U64(cres.v) = Val(written.expect)

\* the second of two values written is read back second, the first being a
\* non-minimal encoding
C12_Witness ==
    /\ cres.op = "read_compact_size"
    /\ written.nr = 2
    /\ written.expect = Some(Bytes(8, 255))
    /\ Prefix(InputOf(bcds), 3) = <<253, 5, 0>>
    /\ cres.ok

ReadOps == {"read_bytes", "read_string", "read_compact_size", "read_boolean", "_read_num"}

\* the number of bytes after the cursor of s
Remaining(s) == Len(InputOf(s)) - s.read_cursor

\* the number of bytes the compact size at the cursor of s takes
SizeWidth(s) ==
    IF Remaining(s) <= 0 THEN 1
    ELSE CASE InputOf(s)[s.read_cursor + 1] = 253 -> 3
           [] InputOf(s)[s.read_cursor + 1] = 254 -> 5
           [] InputOf(s)[s.read_cursor + 1] = 255 -> 9
           [] OTHER -> 1

\* the length the string at the cursor of s announces, r being the compact
\* size read there; lengths of 2^16 and more count as 2^16
StringLength(r) ==
    IF Len(r.v) > 2 /\ \E i \in 3..Len(r.v) : r.v[i] # 0 THEN 65536
    ELSE UnsignedLE(SubSeq(r.v, 1, IF Len(r.v) = 1 THEN 1 ELSE 2))

\* the number of bytes the read operation op needs after the cursor of s
Needed(s, op, arg) ==
    CASE op = "read_compact_size" -> SizeWidth(s)
      [] op = "read_string" ->
            IF SizeWidth(s) > Remaining(s) THEN SizeWidth(s)
            ELSE SizeWidth(s) + StringLength(read_compact_size_raw(s))
      [] op = "read_boolean" -> 1
      [] OTHER -> arg

\* C13: every read operation of BCDataStream that needs more bytes than
\* remain after the cursor, also on a stream never written to, fails with
\* SerializationError, and a failed read_bytes leaves the stream as it was.
C13_ReadPastEndFails ==
    /\ (cres.op \in ReadOps
        /\ Needed(written.before, cres.op, written.arg) > Remaining(written.before))
         => ~cres.ok /\ cres.err = "SerializationError"
    /\ (cres.op = "read_bytes" /\ ~cres.ok) => bcds = written.before

\* the header of the blob b is of a recognized shape: legacy version 1 or 2,
\* Overwintered version 3 or 4 with the version group id of that version
RecognizedHeader(b) ==
    \/ SubSeq(b, 1, 4) \in {<<1, 0, 0, 0>>, <<2, 0, 0, 0>>}
    \/ SubSeq(b, 1, 8) = <<3, 0, 0, 128>> \o OVERWINTERED_VERSION_GROUP_ID
    \/ SubSeq(b, 1, 8) = <<4, 0, 0, 128>> \o SAPLING_VERSION_GROUP_ID

\* C14: parsing a transaction whose header is of none of the recognized
\* shapes (legacy version 1 or 2, Overwintered version 3 with group id
\* 0x03C48270, Overwintered version 4 with group id 0x892F2085) fails with
\* TransactionVersionError.
C14_UnrecognizedHeaderRejected ==
    (cres.op = "deserialize" /\ Len(wire.v) >= 8 /\ ~RecognizedHeader(wire.v))
        => ~cres.ok /\ cres.err = "TransactionVersionError"

----------------------------------------------------------------------------
(* The entries of PSBT bytes, section by section, as BIP174 lays them out  *)

\* the compact size at position pos of b: its value and its width
CompactAt(b, pos) ==
    IF b[pos] < 253 THEN [v |-> b[pos], used |-> 1]
    ELSE [v |-> b[pos + 1] + 256 * b[pos + 2], used |-> 3]

\* SplitSections, given the key length and the value length at pos
SplitEntry(b, pos, k, vl) ==
    [key |-> SubSeq(b, pos + k.used, pos + k.used + k.v - 1),
     val |-> SubSeq(b, pos + k.used + k.v + vl.used, pos + k.used + k.v + vl.used + vl.v - 1),
     next |-> pos + k.used + k.v + vl.used + vl.v]

\* the sections of the well-formed PSBT bytes b from position pos on: each a
\* sequence of entries [key, val], key being the full key
RECURSIVE SplitSections(_, _, _, _), SplitSections_e(_, _, _, _)
SplitSections(b, pos, cur, done) ==
    IF pos > Len(b) THEN done
    ELSE IF b[pos] = 0 THEN SplitSections(b, pos + 1, <<>>, Append(done, cur))
    ELSE SplitSections_e(b, cur, done,
            SplitEntry(b, pos, CompactAt(b, pos),
                       CompactAt(b, pos + CompactAt(b, pos).used + CompactAt(b, pos).v)))

\* SplitSections, given the entry e at pos
SplitSections_e(b, cur, done, e) ==
    SplitSections(b, e.next, Append(cur, [key |-> e.key, val |-> e.val]), done)

SectionsOf(b) == SplitSections(b, 6, <<>>, <<>>)

\* the last operation serialized the transaction as the PSBT cres.v
WrotePsbt ==
    cres.op = "serialize_as_bytes" /\ cres.ok /\ Prefix(cres.v, 5) = PSBT_MAGIC

\* C15: in every section of a PSBT the writer emits, the entries are in
\* ascending order of their full key bytes, those of the unknown-field bag
\* included.
C15_SectionsSortedByKey ==
    WrotePsbt =>
        \A s \in 1..Len(SectionsOf(cres.v)) :
            \A i, j \in 1..Len(SectionsOf(cres.v)[s]) :
                i < j => LexLess(SectionsOf(cres.v)[s][i].key, SectionsOf(cres.v)[s][j].key)

\* the key types the parser interprets in the section number s of a PSBT with
\* one input and one output
InterpretedTypes(s) ==
    CASE s = 1 -> {PSBT_GLOBAL_UNSIGNED_TX, PSBT_GLOBAL_XPUB, PSBT_GLOBAL_VERSION}
      [] s = 2 -> {PSBT_IN_NON_WITNESS_UTXO, PSBT_IN_PARTIAL_SIG, PSBT_IN_SIGHASH_TYPE,
                   PSBT_IN_REDEEM_SCRIPT, PSBT_IN_BIP32_DERIVATION, PSBT_IN_FINAL_SCRIPTSIG}
      [] OTHER -> {PSBT_OUT_REDEEM_SCRIPT, PSBT_OUT_BIP32_DERIVATION}

\* the entries of section s of the PSBT bytes b whose key type is not
\* interpreted
UninterpretedEntries(b, s) ==
    {SectionsOf(b)[s][i] : i \in {i \in 1..Len(SectionsOf(b)[s]) :
        Val(deser_compact_size_of(SectionsOf(b)[s][i].key).v) \notin InterpretedTypes(s)}}

\* the transaction serialized last was parsed from the PSBT bytes in wire
ReserializedWire ==
    WrotePsbt /\ wire.kind = "bytes" /\ Prefix(wire.v, 5) = PSBT_MAGIC

\* C16: a PSBT parsed and serialized again, possibly finalized or combined
\* with another PSBT in between, has every entry of an uninterpreted key type
\* in the same section as before, with the same key bytes and value bytes.
C16_UnknownEntriesPreserved ==
    ReserializedWire =>
        \A s \in 1..3 : \A e \in UninterpretedEntries(wire.v, s) :
            \E i \in 1..Len(SectionsOf(cres.v)[s]) : SectionsOf(cres.v)[s][i] = e

\* some section of the PSBT bytes b has two entries with the same full key
HasDuplicateKey(b) ==
    \E s \in 1..Len(SectionsOf(b)) : \E i, j \in 1..Len(SectionsOf(b)[s]) :
        i < j /\ SectionsOf(b)[s][i].key = SectionsOf(b)[s][j].key

\* C17: from_raw_psbt fails with SerializationError on every PSBT in which a
\* section has the same full key twice, whatever the key type.
C17_DuplicateKeyRejected ==
    (cres.op = "from_raw_psbt" /\ wire.v \in PsbtBlobs /\ HasDuplicateKey(wire.v))
        => ~cres.ok /\ IsSerializationError(cres.err)

\* the PartialTxInput objects of the parse scenario
PartialTxInputs == {heap[i] : i \in {i \in 1..Len(heap) : IsPartialTxInput(heap[i])}}

\* the last operation was PSBT parsing, a utxo assignment or a combine
MutatedInputs ==
    cres.op \in {"tx_from_any", "from_raw_psbt", "utxo", "combine_with_other_psbt"}

\* C18: after PSBT parsing, utxo assignment and combine_with_other_txin,
\* also when they failed with PSBTInputConsistencyFailure, every input with
\* a utxo has utxo.txid() equal to prevout.txid, and every input with a
\* redeem_script and a known address has the P2SH address of the hash160 of
\* its redeem_script.
C18_InputConsistent ==
    MutatedInputs =>
        \A txin \in PartialTxInputs :
            /\ IsSome(txin.utxo) => txid(Val(txin.utxo)).v = Some(txin.prevout.txid)
            /\ (Truthy(txin.redeem_script) /\ IsSome(txin_address(txin)))
                 => Val(txin_address(txin)) = hash160_to_p2sh(hash_160(Val(txin.redeem_script)))

----------------------------------------------------------------------------
(* Properties of sign and update_signatures in the signing scenario *)

\* the step is a call of the method op on ptx[last'.r] that returned
Returned(op) == last'.op = op /\ last'.ok /\ last'.n = last.n + 1

\* the objects of the inputs of the receiver before the step
ReceiverInputs == Val(ptx[last'.r].inputs)

\* the inputs of the receiver that were not complete before the step and hold
\* a signature after it that they did not hold before
NewlySigned ==
    {i \in 1..Len(ReceiverInputs) :
        /\ ~txin_is_complete(heap[ReceiverInputs[i]])
        /\ heap'[ReceiverInputs[i]].part_sigs # heap[ReceiverInputs[i]].part_sigs}

\* the inputs of the receiver that were not complete before the step
IncompleteBefore ==
    {i \in 1..Len(ReceiverInputs) : ~txin_is_complete(heap[ReceiverInputs[i]])}

\* C19: sign(keypairs) returns the number of inputs that were not complete
\* before the call and received a signature during it, each input counted
\* once, and leaves inputs that were complete unmodified: the number returned
\* counts every input with a new signature, counts no input twice and none
\* that was complete.
C19_SignCountsInputs ==
    [][Returned("sign") =>
          /\ Cardinality(NewlySigned) <= last'.v
          /\ last'.v <= Cardinality(IncompleteBefore)
          /\ \A i \in 1..Len(ReceiverInputs) :
                txin_is_complete(heap[ReceiverInputs[i]])
                    => heap'[ReceiverInputs[i]] = heap[ReceiverInputs[i]]]_vars

\* the step is a call of update_signatures on ptx[last'.r], with the
\* signatures last'.v
Updating == last'.op = "update_signatures" /\ last'.n = last.n + 1

\* signatures[i] verifies under the pubkey pk against the sighash of input i
\* of the receiver
Verifies(pk, i) ==
    /\ pre_hash(heap, ptx[last'.r], i).ok
    /\ sign_transaction(pk, pre_hash(heap, ptx[last'.r], i).v) = last'.v[i]

\* the pubkeys input i of the receiver lists under which signatures[i] verifies
Signers(i) ==
    {k \in 1..Len(heap[ReceiverInputs[i]].pubkeys) :
        Verifies(heap[ReceiverInputs[i]].pubkeys[k], i)}

\* input i after the step is input i before it with signatures[i] stored
\* under the pubkey pk
StoredUnder(i, pk) ==
    heap'[ReceiverInputs[i]] =
        [heap[ReceiverInputs[i]] EXCEPT !.part_sigs = Update(@, [k \in {pk} |-> last'.v[i]]),
                                        !.script_sig = None]

\* C20: update_signatures(sigs) fails when len(sigs) is not the number of
\* inputs; does nothing when the transaction is complete; otherwise an input
\* either stays as it was or gets sigs[i] stored under one of its pubkeys for
\* which sigs[i] verifies against its sighash, and an input none of whose
\* pubkeys verifies sigs[i] stays as it was, without an exception.
C20_UpdateSignatures ==
    [][Updating =>
          IF Len(last'.v) # Len(ReceiverInputs) THEN ~last'.ok
          ELSE IF is_complete(heap, ptx[last'.r])
          THEN last'.ok /\ heap' = heap /\ ptx' = ptx
          ELSE /\ \A i \in 1..Len(ReceiverInputs) :
                    \/ heap'[ReceiverInputs[i]] = heap[ReceiverInputs[i]]
                    \/ \E k \in Signers(i) : StoredUnder(i, heap[ReceiverInputs[i]].pubkeys[k])
               /\ (\A i \in 1..Len(ReceiverInputs) :
                      pre_hash(heap, ptx[last'.r], i).ok /\ Signers(i) = {})
                    => last'.ok /\ heap' = heap]_vars

----------------------------------------------------------------------------
(* Size estimates of a PartialTransaction: [ok, v, err], v a number of     *)
(* bytes or weight units                                                   *)

\* Transaction.virtual_size_from_weight
virtual_size_from_weight(weight) == weight \div 4 + (IF weight % 4 > 0 THEN 1 ELSE 0)

\* estimated_total_size, given r
estimated_total_size_r(r) == IF r.ok THEN Ok(Len(r.v)) ELSE r

\* Transaction.estimated_total_size
estimated_total_size(h, p) ==
    IF ~is_complete(h, p) \/ IsNone(p.cached_network_ser)
    THEN estimated_total_size_r(p_serialize_to_network(h, p, TRUE, TRUE))
    ELSE Ok(Len(Val(p.cached_network_ser)))

\* Transaction.estimated_base_size
estimated_base_size(h, p) == estimated_total_size(h, p)

\* estimated_weight, given total_tx_size and base_tx_size
estimated_weight_sizes(total_tx_size, base_tx_size) ==
    IF ~total_tx_size.ok THEN total_tx_size
    ELSE IF ~base_tx_size.ok THEN base_tx_size
    ELSE Ok(3 * base_tx_size.v + total_tx_size.v)

\* Transaction.estimated_weight
estimated_weight(h, p) ==
    estimated_weight_sizes(estimated_total_size(h, p), estimated_base_size(h, p))

\* estimated_size, given weight
estimated_size_weight(weight) ==
    IF weight.ok THEN Ok(virtual_size_from_weight(weight.v)) ELSE weight

\* Transaction.estimated_size
estimated_size(h, p) == estimated_size_weight(estimated_weight(h, p))

----------------------------------------------------------------------------
(* Input scenario: one PartialTransaction whose inputs are in the states a  *)
(* wallet and its cosigners leave them in (unsigned, partially signed,     *)
(* signed, finalized; with and without the funding transaction), and the   *)
(* calls that sign it, finalize it and ask it for a preimage.              *)

MaxCalls == 2

\* an input of the wallet whose funding transaction is not known: neither a
\* utxo nor a trusted value
UnfundedTxIn(kind) == [WalletTxIn(kind) EXCEPT !.utxo = None]

\* an input that is not the wallet's: only the outpoint is known
ForeignTxIn == PartialTxInput(TxOutpoint(FundingTxid, 1), None, DefaultSequence)

\* an input spending a p2sh output with a script of its own (a time lock
\* and one key): the caller sets script_type and redeem_script and nothing
\* else, and builds the scriptSig from sign_txin
ScriptTxIn ==
    [PartialTxInput(TxOutpoint(FundingTxid, 1), None, <<253, 255, 255, 255>>) EXCEPT
        !.script_type = "p2sh",
        !.redeem_script = Some(<<4, 80, 63, 133, 95, 177, 117>> \o push_script(Key(1)) \o <<172>>)]

\* the inputs of the scenario before anything is signed
InputObjects(kind) ==
    CASE kind = "Anov" -> UnfundedTxIn("A")
      [] kind = "S" -> ScriptTxIn
      [] kind = "Bnov" -> UnfundedTxIn("B")
      [] kind = "F" -> ForeignTxIn
      [] OTHER -> WalletTxIn(kind)

\* the transactions of the scenario: the kinds of their inputs
InputKinds ==
    {<<"A">>, <<"Anov">>, <<"B">>, <<"Bnov">>, <<"F">>, <<"C0">>, <<"S">>,
     <<"A", "B">>, <<"Anov", "B">>, <<"A", "F">>, <<"B", "Anov">>}

\* what was done to the transaction before the scenario starts: nothing, a
\* cosigner's signature, two cosigners' signatures, these and finalize_psbt,
\* or the signatures of all three cosigners added one by one
Preparations == {"none", "signed1", "signed2", "finalized", "signed3"}

AddThird(h, p) ==
    IF pre_hash(h, p, 1).ok /\ Len(h[Val(p.inputs)[1]].pubkeys) >= 3
    THEN add_signature_to_txin(h, p, 1, Key(3), sign_transaction(Key(3), pre_hash(h, p, 1).v))
    ELSE Res(h, p, "none")

Prepared(h, p, prep) ==
    CASE prep = "signed1" -> sign(h, p, {Key(2)})
      [] prep = "signed2" -> sign(h, p, {Key(1), Key(2)})
      [] prep = "finalized" ->
           LET s == sign(h, p, {Key(2), Key(3)})
           IN  [h |-> finalize_psbt(s.h, s.p).h, p |-> s.p]
      [] prep = "signed3" ->
           LET s == sign(h, p, {Key(1), Key(2)})
           IN  AddThird(s.h, s.p)
      [] OTHER -> [h |-> h, p |-> p]

IInit ==
    /\ \E ks \in InputKinds : \E prep \in Preparations :
         \E h \in {List([i \in 1..Len(ks) |-> InputObjects(ks[i])]) \o <<WalletTxOut("A")>>} :
         \E p \in {[PartialTransaction EXCEPT
                       !.inputs = Some(List([i \in 1..Len(ks) |-> i])),
                       !.outputs = Some(<<Len(ks) + 1>>)]} :
           /\ heap = Prepared(h, p, prep).h
           /\ ptx = <<Prepared(h, p, prep).p, Prepared(h, p, prep).p>>
    /\ last = Last("init", 0, TRUE, "none", <<>>, 0, FALSE, FALSE)
    /\ ctx = Transaction(None)
    /\ wire = <<>>
    /\ cres = NoResult
    /\ bcds = BCDataStream
    /\ written = NoWrites
    /\ plugin = ScanOverGapPlugin
    /\ wallet = Wallet
    /\ loop = Loop

\* one call on the transaction that ends with heap x.h, object x.p, exception
\* x.err and result v; last.r is the input the call was about, or 0
Call(op, i, res, result) ==
    /\ last.n < MaxCalls
    /\ \E x \in {res} : \E v \in {result} :
         /\ heap' = x.h
         /\ ptx' = [ptx EXCEPT ![1] = x.p]
         /\ last' = Last(op, i, x.err = "none", x.err, v, last.n + 1,
                         is_complete(heap, ptx[1]), HasSigs(heap, ptx[1]))
    /\ UNCHANGED <<ctx, wire, cres, stream, scanner>>

InputIndexes == 1..Len(Val(ptx[1].inputs))

\* input i of the transaction
TxIn(i) == heap[Val(ptx[1].inputs)[i]]

ISerializePreimage ==
    \E i \in InputIndexes : \E x \in {serialize_preimage(heap, ptx[1], i)} :
        Call("serialize_preimage", i, Res(heap, ptx[1], x.err), x.v)

ISignTxin ==
    \E i \in InputIndexes : \E k \in {1} : \E x \in {sign_txin(heap, ptx[1], i, Key(k))} :
        Call("sign_txin", i, Res(heap, ptx[1], x.err), x.v)

ISign ==
    \E ks \in {{Key(1)}, {Key(1), Key(3)}} :
        \E x \in {sign(heap, ptx[1], ks)} :
            Call("sign", 0, x, [keypairs |-> ks, cnt |-> x.cnt])

\* signatures[i] is by the first or the third key of input i, over its
\* sighash where that can be computed
IUpdateSignatures ==
    \E k \in {1, 3} :
        \E signatures \in {List([i \in InputIndexes |->
                                   SignatureFor(k, pre_hash(heap, ptx[1], i))])} :
            Call("update_signatures", 0, update_signatures(heap, ptx[1], signatures), signatures)

IEstimatedSize ==
    \E x \in {estimated_size(heap, ptx[1])} :
        Call("estimated_size", 0, Res(heap, ptx[1], x.err), x.v)

\* PartialTxInput.finalize on input i
IFinalize ==
    \E i \in InputIndexes : \E x \in {finalize(TxIn(i))} :
        Call("finalize", i,
             Res([heap EXCEPT ![Val(ptx[1].inputs)[i]] = x.txin], ptx[1], x.err), <<>>)

\* a signature under the second key is added to the first input, which may
\* or may not list that key
IAddSignatureToTxin ==
    /\ 1 \in InputIndexes
    /\ \E k \in {2} :
         Call("add_signature_to_txin", 1,
              add_signature_to_txin(heap, ptx[1], 1, Key(k), <<48, k, 0, 0, 1>>), <<>>)

ISerializeAsBytes ==
    \E x \in {p_serialize_as_bytes(heap, ptx[1], FALSE)} :
        Call("serialize_as_bytes", 0, x, x.v)

IRemoveSignatures ==
    \E x \in {remove_signatures(heap, ptx[1])} :
        Call("remove_signatures", 0, x, <<>>)

INext ==
    \/ ISerializePreimage
    \/ ISignTxin
    \/ ISign
    \/ IUpdateSignatures
    \/ IEstimatedSize
    \/ IFinalize
    \/ IAddSignatureToTxin
    \/ ISerializeAsBytes
    \/ IRemoveSignatures

InputSpec == IInit /\ [][INext]_vars

----------------------------------------------------------------------------
(* Properties of the input scenario *)

Called(op) == last'.op = op /\ last'.n = last.n + 1

\* the call just made had to build the ZIP243 preimage of input i, whose
\* value is unknown: nothing before the value is read stops it
BuildsPreimageWithoutValue(i) ==
    /\ ptx[1].overwintered
    /\ IsNone(value_sats(TxIn(i)))
    /\ get_preimage_script(TxIn(i)).ok
    /\ IsNone(TxIn(i).sighash)
    /\ \/ Called("serialize_preimage") /\ last'.r = i
       \/ Called("sign_txin") /\ last'.r = i /\ validate_data(TxIn(i)) = "none"
       \/ /\ Called("sign")
          /\ ~txin_is_complete(TxIn(i))
          /\ validate_data(TxIn(i)) = "none"
          /\ \E k \in 1..Len(TxIn(i).pubkeys) : TxIn(i).pubkeys[k] \in last'.v.keypairs
       \/ /\ Called("update_signatures")
          /\ ~is_complete(heap, ptx[1])
          /\ Len(last'.v) = Len(Val(ptx[1].inputs))
          /\ \A k \in DOMAIN TxIn(i).part_sigs : TxIn(i).part_sigs[k] # last'.v[i]

\* C21: when serialize_preimage, sign_txin, sign or update_signatures has to
\* build the preimage of an input of an Overwintered transaction whose
\* funding value is unknown, the call fails with MissingTxInputAmount and the
\* input is left as it was
C21_UnknownValueFails ==
    [][\A i \in InputIndexes :
          BuildsPreimageWithoutValue(i)
              => /\ ~last'.ok
                 /\ last'.err = "MissingTxInputAmount"
                 /\ heap'[Val(ptx[1].inputs)[i]] = TxIn(i)]_vars

\* the input is one whose scriptSig size has to be guessed
TypeNotKnown(txin) ==
    /\ ~is_coinbase_input(txin)
    /\ IsNone(txin.script_sig)
    /\ txin.script_type \notin {"p2pk", "p2pkh", "p2sh"}

\* C22: estimated_size() returns a size for every PartialTransaction, also
\* for one that has an input of unknown script type and unknown address, and
\* the size is (3 * base_size + total_size) / 4 rounded up
C22_EstimatedSizeNeverFails ==
    last.op = "estimated_size"
        => /\ last.ok
           /\ estimated_total_size(heap, ptx[1]).ok
           /\ 4 * last.v >= 3 * estimated_base_size(heap, ptx[1]).v
                                + estimated_total_size(heap, ptx[1]).v
           /\ 4 * (last.v - 1) < 3 * estimated_base_size(heap, ptx[1]).v
                                    + estimated_total_size(heap, ptx[1]).v

\* C23: finalize() on a complete input without script_sig sets script_sig
\* and empties part_sigs, sighash, bip32_paths and redeem_script, leaving
\* utxo, prevout, nsequence and the unknown entries as they were; on an
\* input that is not complete it changes nothing; a second finalize() right
\* after the first changes nothing
C23_FinalizeEffect ==
    [][Called("finalize") =>
          /\ txin_is_complete(TxIn(last'.r)) /\ IsNone(TxIn(last'.r).script_sig)
                => /\ last'.ok
                   /\ IsSome(heap'[Val(ptx[1].inputs)[last'.r]].script_sig)
                   /\ heap'[Val(ptx[1].inputs)[last'.r]] =
                         [TxIn(last'.r) EXCEPT
                             !.script_sig = heap'[Val(ptx[1].inputs)[last'.r]].script_sig,
                             !.part_sigs = EmptyMap, !.sighash = None,
                             !.bip32_paths = EmptyMap, !.redeem_script = None]
          /\ ~txin_is_complete(TxIn(last'.r)) => last'.ok /\ heap' = heap
          /\ last.op = "finalize" /\ last.r = last'.r /\ last.ok
                => last'.ok /\ heap' = heap
          /\ \A j \in InputIndexes : j # last'.r => heap'[Val(ptx[1].inputs)[j]] = TxIn(j)]_vars

\* a non-coinbase input without part_sigs and without script_sig
Unsigned(txin) ==
    ~is_coinbase_input(txin) /\ txin.part_sigs = EmptyMap /\ IsNone(txin.script_sig)

\* C24: a non-coinbase input that has no part_sigs and no script_sig is not
\* complete, whatever its script_type, num_sig and pubkeys; a transaction
\* with such an input is not complete, and serialize_as_bytes() does not
\* return it as a network transaction
C24_UnsignedIsNotComplete ==
    [][\A i \in InputIndexes :
          Unsigned(TxIn(i))
              => /\ ~txin_is_complete(TxIn(i))
                 /\ ~is_complete(heap, ptx[1])
                 /\ Called("serialize_as_bytes") /\ last'.ok
                       => Prefix(last'.v.v, 5) = PSBT_MAGIC]_vars

----------------------------------------------------------------------------
(* Object scenario: one Transaction constructed from raw bytes, well-formed *)
(* or not, and the calls made on it afterwards.  wire keeps the bytes it    *)
(* was constructed from, cres the outcome of the latest call, and last the *)
(* history: whether a call that deserializes has raised (ok, err), the     *)
(* values assigned to locktime and version so far (v), and whether the     *)
(* object had been deserialized when the last of them was assigned         *)
(* (was_complete).                                                         *)

MaxTxCalls == 3

\* Transaction.inputs(): [tx, ok, v, err], v the optional list
tx_inputs(tx) ==
    IF IsNone(tx.inputs)
    THEN LET d == deserialize(tx)
         IN  [tx |-> d.tx, ok |-> d.err = "none", v |-> d.tx.inputs, err |-> d.err]
    ELSE [tx |-> tx, ok |-> TRUE, v |-> tx.inputs, err |-> "none"]

\* Transaction.outputs(): [tx, ok, v, err], v the optional list
tx_outputs(tx) ==
    IF IsNone(tx.outputs)
    THEN LET d == deserialize(tx)
         IN  [tx |-> d.tx, ok |-> d.err = "none", v |-> d.tx.outputs, err |-> d.err]
    ELSE [tx |-> tx, ok |-> TRUE, v |-> tx.outputs, err |-> "none"]

\* Transaction.locktime (getter): [tx, ok, v, err]
get_locktime(tx) ==
    LET d == deserialize(tx)
    IN  [tx |-> d.tx, ok |-> d.err = "none", v |-> d.tx.locktime, err |-> d.err]

\* the descriptions of the well-formed transactions of the scenario
ObjectDescs ==
    {d \in TxDescs :
        /\ d.nss + d.nso + d.njs = 0 /\ d.vb = 0 /\ d.expiry = 0
        /\ \/ d.nin = 1 /\ d.nout = 1 /\ d.locktime = 0
           \/ d.nin = 2 /\ d.nout = 2 /\ d.locktime = 500000 /\ d.kind \in {"v1", "v4"}}

SmallDesc ==
    [kind |-> "v1", nin |-> 1, nout |-> 1, locktime |-> 0, expiry |-> 0,
     vb |-> 0, nss |-> 0, nso |-> 0, njs |-> 0]

\* the one-input transaction with an output value that is negative or above
\* the coin supply
BadValueBlobs ==
    {WireFormat_ins(SmallDesc,
         Reverse(WireTxid(1)) \o WireLE(0, 4) \o <<Len(WireScriptSig(1))>> \o WireScriptSig(1)
             \o WireTxIn(1).nsequence,
         v \o <<Len(WireTxOut(1).scriptpubkey)>> \o WireTxOut(1).scriptpubkey) :
       v \in {<<0, 0, 0, 0, 0, 0, 0, 128>>, <<1, 64, 7, 90, 240, 117, 7, 0>>}}

\* the bytes a Transaction is constructed from: well-formed ones, one cut
\* short at every position or followed by junk, unsupported headers, and
\* output values out of range
ObjectBlobs ==
    {WireFormat(d) : d \in ObjectDescs}
    \cup Damaged(WireFormat(SmallDesc))
    \cup {HeaderBlob(hdr) : hdr \in Headers}
    \cup BadValueBlobs

NothingAssigned == [locktime |-> None, version |-> None]

TInit ==
    /\ wire \in ObjectBlobs
    /\ ctx = Transaction(Some(wire))
    /\ last = Last("init", 0, TRUE, "none", NothingAssigned, 0, FALSE, FALSE)
    /\ cres = NoResult
    /\ heap = <<>>
    /\ ptx = <<PartialTransaction, PartialTransaction>>
    /\ bcds = BCDataStream
    /\ written = NoWrites
    /\ plugin = ScanOverGapPlugin
    /\ wallet = Wallet
    /\ loop = Loop

\* a call that reads the object: it ends with the object x.tx, and returns
\* x.v or raises x.err
TRead(op, x) ==
    /\ last.n < MaxTxCalls
    /\ ctx' = x.tx
    /\ cres' = Result(op, x.ok, x.v, x.err)
    /\ last' = [last EXCEPT !.n = @ + 1,
                            !.ok = @ /\ x.ok,
                            !.err = IF last.ok THEN x.err ELSE @]
    /\ UNCHANGED <<heap, ptx, wire, stream, scanner>>

\* an assignment to a property of the object
TWrite(op, assigned, tx) ==
    /\ ctx' = tx
    /\ cres' = Result(op, TRUE, <<>>, "none")
    /\ last' = [last EXCEPT !.n = @ + 1, !.op = "assigned", !.v = assigned,
                            !.was_complete = IsSome(ctx.inputs)]
    /\ UNCHANGED <<heap, ptx, wire, stream, scanner>>

TDeserialize ==
    \E d \in {deserialize(ctx)} :
        TRead("deserialize", [tx |-> d.tx, ok |-> d.err = "none", v |-> <<>>, err |-> d.err])

TInputs == \E x \in {tx_inputs(ctx)} : TRead("inputs", x)

TOutputs == \E x \in {tx_outputs(ctx)} : TRead("outputs", x)

TLocktime == \E x \in {get_locktime(ctx)} : TRead("locktime", x)

TSerializeToNetwork ==
    \E x \in {serialize_to_network(ctx, FALSE, TRUE)} : TRead("serialize_to_network", x)

TSerialize == \E x \in {serialize(ctx)} : TRead("serialize", x)

TSetLocktime ==
    /\ last.n < MaxTxCalls
    /\ \E value \in {111} :
         TWrite("locktime=", [last.v EXCEPT !.locktime = Some(value)], set_locktime(ctx, value))

TSetVersion ==
    /\ last.n < MaxTxCalls
    /\ \E value \in {2, 4} :
         TWrite("version=", [last.v EXCEPT !.version = Some(value)], set_version(ctx, value))

TNext ==
    \/ TDeserialize
    \/ TInputs
    \/ TOutputs
    \/ TLocktime
    \/ TSerializeToNetwork
    \/ TSerialize
    \/ TSetLocktime
    \/ TSetVersion

ObjectSpec == TInit /\ [][TNext]_vars

----------------------------------------------------------------------------
(* Properties of the object scenario *)

\* C25: once a call on a Transaction has failed to deserialize its bytes,
\* a later inputs(), outputs() or serialize_to_network() call fails again;
\* none returns data of the failed parse
C25_FailedParseExposesNothing ==
    ~last.ok /\ cres.op \in {"inputs", "outputs", "serialize_to_network"} => ~cres.ok

\* the transaction the bytes of the scenario encode
Decoded == deserialize(Transaction(Some(wire)))

\* Decoded with the values assigned so far
Assigned ==
    LET t == IF IsSome(last.v.locktime)
             THEN set_locktime(Decoded.tx, Val(last.v.locktime)) ELSE Decoded.tx
    IN  IF IsSome(last.v.version) THEN set_version(t, Val(last.v.version)) ELSE t

\* C26: after locktime or version was assigned to a Transaction made from
\* well-formed bytes, whether deserialized before or not, inputs() and
\* outputs() return the lists the bytes encode, and serialize() returns the
\* serialization of the encoded transaction with the assigned fields changed
C26_SettersKeepInputsAndOutputs ==
    last.op = "assigned" /\ Decoded.err = "none"
        => /\ cres.op = "inputs" => cres.ok /\ cres.v = Decoded.tx.inputs
           /\ cres.op = "outputs" => cres.ok /\ cres.v = Decoded.tx.outputs
           /\ cres.op = "serialize" => cres.ok /\ cres.v = serialize(Assigned).v

\* C27: sign() and update_signatures() leave a complete input complete and
\* keep the signature data it held: its partial signatures and, when it is
\* finalized, its script_sig
C27_CompleteStaysComplete ==
    [][Called("sign") \/ Called("update_signatures") =>
          \A i \in InputIndexes :
              txin_is_complete(TxIn(i))
                  => /\ txin_is_complete(heap'[Val(ptx[1].inputs)[i]])
                     /\ SubMap(TxIn(i).part_sigs, heap'[Val(ptx[1].inputs)[i]].part_sigs)
                     /\ IsSome(TxIn(i).script_sig)
                           => heap'[Val(ptx[1].inputs)[i]].script_sig = TxIn(i).script_sig]_vars

\* the data items a script of pushes puts on the stack, read from byte pos
\* (the inverse of push_script for OP_0 and the three length forms)
RECURSIVE ScriptItems(_, _)
ScriptItems(script, pos) ==
    IF pos > Len(script) THEN <<>>
    ELSE IF script[pos] = 0 THEN <<<<>>>> \o ScriptItems(script, pos + 1)
    ELSE IF script[pos] < 76
    THEN <<SubSeq(script, pos + 1, pos + script[pos])>>
            \o ScriptItems(script, pos + 1 + script[pos])
    ELSE IF script[pos] = 76
    THEN <<SubSeq(script, pos + 2, pos + 1 + script[pos + 1])>>
            \o ScriptItems(script, pos + 2 + script[pos + 1])
    ELSE <<SubSeq(script, pos + 3, pos + 2 + script[pos + 1] + 256 * script[pos + 2])>>
            \o ScriptItems(script, pos + 3 + script[pos + 1] + 256 * script[pos + 2])

\* the signatures of a p2sh multisig scriptSig: the items between the
\* leading OP_0 and the trailing redeem script
ScriptSigSignatures(script_sig) ==
    SubSeq(ScriptItems(script_sig, 1), 2, Len(ScriptItems(script_sig, 1)) - 1)

\* sigs are signatures txin held, for pubkeys at increasing positions
InPubkeyOrder(sigs, txin) ==
    \E f \in [1..Len(sigs) -> 1..Len(txin.pubkeys)] :
        /\ \A a, b \in 1..Len(sigs) : a < b => f[a] < f[b]
        /\ \A a \in 1..Len(sigs) :
              /\ txin.pubkeys[f[a]] \in DOMAIN txin.part_sigs
              /\ txin.part_sigs[txin.pubkeys[f[a]]] = sigs[a]

\* C28: finalize() on a complete p2sh multisig input without script_sig
\* produces a scriptSig with exactly num_sig signatures, in the order of
\* their public keys in pubkeys, however many partial signatures it held
C28_FinalizedScriptSigHasNumSig ==
    [][Called("finalize") /\ last'.ok
          /\ TxIn(last'.r).script_type = "p2sh"
          /\ txin_is_complete(TxIn(last'.r)) /\ IsNone(TxIn(last'.r).script_sig)
          => /\ IsSome(heap'[Val(ptx[1].inputs)[last'.r]].script_sig)
             /\ Len(ScriptSigSignatures(Val(heap'[Val(ptx[1].inputs)[last'.r]].script_sig)))
                   = TxIn(last'.r).num_sig
             /\ InPubkeyOrder(
                   ScriptSigSignatures(Val(heap'[Val(ptx[1].inputs)[last'.r]].script_sig)),
                   TxIn(last'.r))]_vars

\* the result of serialize_preimage(i) is the same before and after the step
SamePreimage(i) ==
    serialize_preimage(heap', ptx'[1], i) = serialize_preimage(heap, ptx[1], i)

\* C29: serialize_preimage(i) changes no state, two calls in a row for the
\* same input return the same bytes, and its result for input i is not
\* changed by sign, sign_txin, update_signatures, add_signature_to_txin or
\* remove_signatures, nor by finalize on another input
C29_PreimageIgnoresSignatures ==
    [][/\ Called("serialize_preimage") \/ Called("sign_txin")
             => heap' = heap /\ ptx'[1] = ptx[1]
       /\ Called("serialize_preimage") /\ last.op = "serialize_preimage" /\ last.r = last'.r
             => last'.v = last.v /\ last'.err = last.err
       /\ Called("serialize_preimage")
             => /\ last'.ok = serialize_preimage(heap, ptx[1], last'.r).ok
                /\ last'.ok => last'.v = serialize_preimage(heap, ptx[1], last'.r).v
       /\ \/ Called("sign") \/ Called("update_signatures")
          \/ Called("add_signature_to_txin") \/ Called("remove_signatures")
             => \A i \in InputIndexes : SamePreimage(i)
       /\ Called("finalize")
             => \A i \in InputIndexes \ {last'.r} : SamePreimage(i)]_vars

\* update_signatures has added a signature to one input of a transaction
\* with two inputs, and the preimages of both inputs can be built
C29_Witness ==
    /\ last.op = "update_signatures" /\ last.ok
    /\ Len(Val(ptx[1].inputs)) = 2
    /\ \E i \in InputIndexes : TxIn(i).part_sigs # EmptyMap
    /\ \A i \in InputIndexes : serialize_preimage(heap, ptx[1], i).ok

----------------------------------------------------------------------------
(* Scan scenario: the dialog of one wallet calls init_scans, do_scan and    *)
(* add_found and ticks scans on and off while the event loop runs the       *)
(* coroutines; Network.get_instance() is None when the network is off.     *)

\* what Network.get_instance() can return
Networks == {None, Some("network")}

\* the outcomes of a balance request: a balance, or an exception
Outcomes == {Task("done", 0), Task("done", 1), Task("error", 0)}

\* a free coroutine slot, the lowest
FreeCoro == CHOOSE c \in Coros : loop.coros[c].fn = "none"
                                 /\ \A x \in Coros : loop.coros[x].fn = "none" => c <= x

\* the coroutines of function fn suspended at pc
At(fn, pc) == {c \in Coros : loop.coros[c].fn = fn /\ loop.coros[c].pc = pc}

\* the variables the scan scenario leaves alone
others == <<heap, ptx, last, ctx, wire, cres, stream>>

GInit ==
    /\ heap = <<>>
    /\ ptx = <<>>
    /\ last = Last("init", 0, TRUE, "none", <<>>, 0, FALSE, FALSE)
    /\ ctx = Transaction(None)
    /\ wire = <<>>
    /\ cres = NoResult
    /\ bcds = BCDataStream
    /\ written = NoWrites
    /\ plugin = ScanOverGapPlugin
    /\ wallet = Wallet
    /\ loop = Loop

\* a step of coroutine c that ends in x = [plugin, coro]
Resume(c, x) ==
    /\ plugin' = x.plugin
    /\ loop' = [loop EXCEPT !.coros[c] = x.coro]
    /\ UNCHANGED wallet
    /\ UNCHANGED others

\* the dialog opens or resets the scans: init_scans runs when it gets the lock
GInitScans ==
    /\ loop.inits < MaxInitCalls
    /\ plugin.wallet_scans_lock = 0
    /\ \E reset \in BOOLEAN :
         plugin' = init_scans(plugin, wallet, reset)
    /\ loop' = [loop EXCEPT !.inits = @ + 1]
    /\ UNCHANGED wallet
    /\ UNCHANGED others

\* the dialog ticks a scan on or off (change_active); its list is disabled
\* while a scan or add_found is in progress
GChangeActive ==
    /\ IsSome(plugin.wallet_scans)
    /\ \A c \in Coros : loop.coros[c].fn = "none"
    /\ \E j \in 1..2 :
         plugin' = [plugin EXCEPT
                       !.objects[Val(plugin.wallet_scans)].scans[j].active = ~@]
    /\ UNCHANGED <<wallet, loop>>
    /\ UNCHANGED others

\* the dialog schedules do_scan(wallet, cnt) on the event loop
GCallDoScan ==
    /\ loop.calls < MaxScanCalls
    /\ \E c \in {x \in Coros : loop.coros[x].fn = "none" /\ x = FreeCoro} :
         loop' = [loop EXCEPT !.coros[c] = Coro("do_scan", "start", 0, 0, 0, 0),
                              !.calls = @ + 1]
    /\ UNCHANGED <<plugin, wallet>>
    /\ UNCHANGED others

\* the dialog schedules add_found(wallet) on the event loop
GCallAddFound ==
    /\ loop.calls < MaxScanCalls
    /\ \E c \in {x \in Coros : loop.coros[x].fn = "none" /\ x = FreeCoro} :
         loop' = [loop EXCEPT !.coros[c] = Coro("add_found", "start", 0, 0, 0, 0),
                              !.calls = @ + 1]
    /\ UNCHANGED <<plugin, wallet>>
    /\ UNCHANGED others

\* do_scan gets the lock and runs to the next place it can be suspended at,
\* or to its end
GDoScan ==
    /\ plugin.wallet_scans_lock = 0
    /\ \E c \in At("do_scan", "start") : \E n \in Networks :
         Resume(c, do_scan(plugin, n))

\* do_scan gets the lock in the loop that derives addresses and hands
\* s.derive_addrs to the executor
GDoScanDerive ==
    /\ plugin.wallet_scans_lock = 0
    /\ \E c \in At("do_scan", "derive") :
         Resume(c, Suspended([plugin EXCEPT !.wallet_scans_lock = c],
                             [loop.coros[c] EXCEPT !.pc = "run_in_executor"]))

\* the executor has run s.derive_addrs(cnt): do_scan releases the lock and
\* goes on with the next scan
GDoScanDerived ==
    \E c \in At("do_scan", "run_in_executor") :
        Resume(c, do_scan_derive(
            [plugin EXCEPT
                !.objects[loop.coros[c].scans].scans[loop.coros[c].k] = derive_addrs(@, ScanCnt),
                !.wallet_scans_lock = 0],
            loop.coros[c].scans, loop.coros[c].k + 1,
            loop.coros[c].to_scan_cnt + ScanCnt))

\* a balance request of do_scan ends, and do_scan gets the lock for
\* on_progress
GDoScanNextDone ==
    /\ plugin.wallet_scans_lock = 0
    /\ \E c \in At("do_scan", "next_done") :
         \E j \in 1..Len(plugin.objects[loop.coros[c].scans].scans) :
         \E i \in {t \in DOMAIN plugin.objects[loop.coros[c].scans].scans[j].tasks :
                      plugin.objects[loop.coros[c].scans].scans[j].tasks[t].state = "pending"} :
         \E outcome \in Outcomes :
             Resume(c, do_scan_next_done(plugin, loop.coros[c], j, i, outcome))

\* add_found asks for the network, gets the lock and hands
\* s.create_new_addrs to the executor
GAddFound ==
    \E c \in At("add_found", "start") :
        \E n \in {x \in Networks : IsNone(x) \/ plugin.wallet_scans_lock = 0} :
            Resume(c, add_found(plugin, c, n))

\* the executor has run s.create_new_addrs(wallet), or has raised: add_found
\* goes on with the next scan, or leaves the lock and awaits on_completed
\* or on_error
GAddFoundCreated ==
    \E c \in At("add_found", "run_in_executor") : \E raised \in BOOLEAN :
        \E co \in {loop.coros[c]} :
        \E r \in {create_new_addrs(
                     plugin.objects[co.scans].scans[co.k],
                     IF co.k = 1 THEN wallet.num_receiving ELSE wallet.num_change)} :
        \E x \in {IF raised
                  THEN Suspended([plugin EXCEPT !.wallet_scans_lock = 0],
                                 [co EXCEPT !.pc = "on_error", !.e = Some("Exception")])
                  ELSE IF co.k < Len(plugin.objects[co.scans].scans)
                  THEN Suspended([plugin EXCEPT !.objects[co.scans].scans[co.k] = r.s],
                                 [co EXCEPT !.k = @ + 1])
                  ELSE Suspended([plugin EXCEPT !.objects[co.scans].scans[co.k] = r.s,
                                                !.wallet_scans_lock = 0],
                                 [co EXCEPT !.pc = "on_completed"])} :
            /\ plugin' = x.plugin
            /\ loop' = [loop EXCEPT !.coros[c] = x.coro]
            /\ wallet' = IF raised THEN wallet
                         ELSE IF co.k = 1 THEN [wallet EXCEPT !.num_receiving = r.num]
                         ELSE [wallet EXCEPT !.num_change = r.num]
            /\ UNCHANGED others

\* a coroutine gets the lock in on_completed and ends
GOnCompleted ==
    /\ plugin.wallet_scans_lock = 0
    /\ \E c \in {x \in Coros : loop.coros[x].pc = "on_completed"} :
         Resume(c, Suspended(on_completed(plugin), NoCoro))

\* a coroutine gets the lock in on_error and ends
GOnError ==
    /\ plugin.wallet_scans_lock = 0
    /\ \E c \in {x \in Coros : loop.coros[x].pc = "on_error"} :
         Resume(c, Suspended(on_error(plugin, Val(loop.coros[c].e)), NoCoro))

GNext ==
    \/ GInitScans
    \/ GChangeActive
    \/ GCallDoScan
    \/ GCallAddFound
    \/ GDoScan
    \/ GDoScanDerive
    \/ GDoScanDerived
    \/ GDoScanNextDone
    \/ GAddFound
    \/ GAddFoundCreated
    \/ GOnCompleted
    \/ GOnError

ScanSpec == GInit /\ [][GNext]_vars

\* the event loop runs every coroutine that can go on, and the executor
\* jobs and the balance requests end
ScanFairness ==
    /\ WF_vars(GDoScan)
    /\ WF_vars(GDoScanDerive)
    /\ WF_vars(GDoScanDerived)
    /\ WF_vars(GDoScanNextDone)
    /\ WF_vars(GAddFound)
    /\ WF_vars(GAddFoundCreated)
    /\ WF_vars(GOnCompleted)
    /\ WF_vars(GOnError)

ScanLiveSpec == GInit /\ [][GNext]_vars /\ ScanFairness

----------------------------------------------------------------------------
(* Properties of the scan scenario *)

\* wallet_scan.running of the wallet's WalletScan
Running ==
    IsSome(plugin.wallet_scans) /\ plugin.objects[Val(plugin.wallet_scans)].running

\* C30: whenever the wallet's wallet_scan.running is True it is False again
\* later: every do_scan or add_found that set it sets it back
C30_RunningIsSetBack == Running ~> ~Running

====
